---- MODULE Spec2Model ----
(***************************************************************************)
(* Model of the xinput-dinput-proxy input-routing pipeline.                *)
(*                                                                         *)
(*   Spec          device lifecycle: DeviceManager, VirtualDeviceEmulator  *)
(*                 (target list, HidHide integration), the HidHide driver  *)
(*                 blacklist and the TranslationLayer direction flags.     *)
(*   SpecMasking   the same operations with the HidHide integration in use. *)
(*   SpecLoop      the main loop and the injection thread, with fairness.   *)
(*   SpecDebounce  TranslationLayer::translate on the button word.          *)
(*   SpecCapture   InputCapture: enumeration of the HID devices and polls.  *)
(*   SpecEmulator  the emulator driven through its public operations.       *)
(*   SpecHidHide   the HidHide client driven through its public operations. *)
(*   SpecRumble    the rumble passthrough of the emulator.                  *)
(*   SpecSOCD      TranslationLayer::applySOCDControl on a button word.     *)
(*   SpecTranslate TranslationLayer::translate on a snapshot.               *)
(*   SpecHID       TranslationLayer::translate on one HID source.           *)
(*   SpecPass      one processDevices pass over several HID devices.        *)
(*   SpecMain      the proxy loop of main with its own sets and maps.       *)
(*   SpecCallbacks the callbacks of the emulator and m_devicesMutex.        *)
(*   SpecThreads   sendInput, the injection thread and shutdown, by steps.  *)
(*   SpecPoll      InputCapture: the polls with every answer.               *)
(*   SpecSlots     InputCapture: several XInput slots during enumeration.   *)
(*   SpecHide      the manager's masking of devices with and without ids.   *)
(*   SpecProgram   main by steps beside the dashboard and consoleHandler.   *)
(*   SpecProgramLive  the same with a fair main thread.                     *)
(*   SpecThreadsLive  SpecThreads with a fair injection thread.             *)
(***************************************************************************)
EXTENDS Integers, Sequences, FiniteSets, TLC

VARIABLES
    \* VirtualDeviceEmulator
    m_initialized,                  \* std::atomic<bool> m_initialized
    m_virtualDevices,               \* std::vector<VirtualDevice>
    m_hidHideEnabled,               \* bool m_hidHideEnabled
    m_hidHideController,            \* TRUE when the unique_ptr is non-null
    m_injectionQueue,               \* std::vector<TranslatedState>
    \* HidHideController and the filter driver behind it
    m_connected,                    \* HidHideController::m_connected
    hidHideFailed,                  \* static bool in addDeviceToBlacklist
    driverBlacklist,                \* the driver's blacklist (a multistring)
    driverWhitelist,                \* the driver's whitelist of process paths
    driverActive,                   \* the driver hides the blacklisted devices
    driverInverse,                  \* the driver's whitelist works inverted
    \* DeviceManager
    m_hiddenDeviceIds,
    m_failedToHideDeviceIds,
    m_activeVirtualXInputDevices,   \* userId -> virtualId
    m_activeVirtualDInputDevices,   \* userId -> virtualId
    devicesHiddenThisSession,       \* static set in processDevices
    \* TranslationLayer
    m_xinputToDInputEnabled,
    m_dinputToXInputEnabled,
    \* what the orchestrator hands to the manager
    inputStates,                    \* the last snapshot of the capture layer
    translationEnabled,             \* Dashboard::m_translationEnabled
    hidHideEnabled,                 \* Dashboard::m_hidHideEnabled
    pc,                             \* the step of the main loop that runs next
    \* observation of the last operation
    lastOp,                         \* name of the last operation
    calls,                          \* the calls the last operation made, in order
    returnedIds,                    \* ids createVirtualDevice has returned so far
    addedToBlacklist,               \* ids this process wrote to the blacklist
    driverFaulted,                  \* a call on the filter driver has failed
    \* TranslationLayer, button word
    m_socdCleaningEnabled,
    m_debouncingEnabled,
    m_debounceIntervalMs,
    m_lastButtonChangeTime,         \* uint64_t[MAX_CONTROLLERS]
    performanceCounter,             \* what QueryPerformanceCounter answers now
    acceptedButtons,                \* slot -> the word of its last accepted change
    translated,                     \* what translate did, when it was the latest step
    \* InputCapture
    m_controllerStates,             \* std::vector<ControllerState>
    captureHung,                    \* the capturing thread waits for a mutex it holds
    enumerated,                     \* the ids the last enumeration reported, and which
                                    \* of them the list held before
    \* TranslationLayer, conversions
    m_socdMethod,                   \* int m_socdMethod
    gamepad,                        \* the TranslatedState::GamepadState in work
    socd,                           \* what applySOCDControl did, when it was the latest step
    translateResult,                \* what translate returned, when it was the latest step
    m_stickDeadzoneEnabled,
    m_leftStickDeadzone,            \* float, kept in thousandths
    m_rightStickDeadzone,
    m_leftStickAntiDeadzone,
    m_rightStickAntiDeadzone,
    hidState,                       \* the ControllerState of a HID source to translate
    converted,                      \* what convertHIDToStandard made of it, when translate
                                    \* was the latest step
    \* VirtualDeviceEmulator, rumble
    m_rumbleEnabled,
    m_rumbleIntensity,              \* float in [0, 1], kept in hundredths
    m_rumbleCallback,               \* TRUE when a callback is set
    rumble,                         \* the calls of the rumble callback the last rumble
                                    \* operation made
    \* VirtualDeviceEmulator, callbacks
    m_devicesMutex,                 \* "free", or the thread that owns the mutex
    m_deviceCallback,               \* TRUE when a device callback is set
    callerPc,                       \* where the thread that calls the emulator is
    pending,                        \* the callback under way: the operation that fires it
                                    \* and the device it is fired for
    \* VirtualDeviceEmulator, the injection thread beside the main loop
    m_running,                      \* std::atomic<bool> m_running
    clientFreed,                    \* vigem_free was called on the client of the
                                    \* latest initialize
    shutdownPc,                     \* where the thread inside shutdown is
    workerPc,                       \* the injection thread: -2 not running, -1 at
                                    \* while (m_running), 0 before the locked block,
                                    \* otherwise the queue index it sends next
    unsent,                         \* sendInput between a failed immediate send and the
                                    \* push_back: the state it is about to queue
    tick,                           \* the timestamp of the latest captured report
    submitted,                      \* the reports the targets were updated with, in
                                    \* the order of the updates
    \* main: the locals of the proxy loop
    hiddenDeviceIds,
    failedToHideDeviceIds,
    activeVirtualXInputDevices,     \* userId -> virtualId
    activeVirtualDInputDevices,     \* userId -> virtualId
    \* the threads of the program beside each other
    nested,                         \* the pairs << outer, inner >> of mutexes that some
                                    \* thread has locked inner while it held outer
    attempts,                       \* timestamp -> how often the injection thread has
                                    \* sent the queued report of that timestamp
    \* main: the proxy loop beside the dashboard and the console handler
    g_running,                      \* the stop flag of main.cpp
    m_refreshRequested,             \* Dashboard: the refresh button was pressed
    mainPc,                         \* where the main thread is
    unserved                        \* the button was pressed and no refreshDevices has
                                    \* started since

vars == << m_initialized, m_virtualDevices, m_hidHideEnabled, m_hidHideController,
           m_injectionQueue, m_connected, hidHideFailed, driverBlacklist,
           driverWhitelist, driverActive, driverInverse,
           m_hiddenDeviceIds, m_failedToHideDeviceIds,
           m_activeVirtualXInputDevices, m_activeVirtualDInputDevices,
           devicesHiddenThisSession, m_xinputToDInputEnabled, m_dinputToXInputEnabled,
           inputStates, translationEnabled, hidHideEnabled, pc,
           lastOp, calls, returnedIds, addedToBlacklist, driverFaulted,
           m_socdCleaningEnabled, m_debouncingEnabled, m_debounceIntervalMs,
           m_lastButtonChangeTime, performanceCounter, acceptedButtons, translated,
           m_controllerStates, captureHung, enumerated,
           m_socdMethod, gamepad, socd, translateResult,
           m_stickDeadzoneEnabled, m_leftStickDeadzone, m_rightStickDeadzone,
           m_leftStickAntiDeadzone, m_rightStickAntiDeadzone, hidState, converted,
           m_rumbleEnabled, m_rumbleIntensity, m_rumbleCallback, rumble,
           m_devicesMutex, m_deviceCallback, callerPc, pending,
           m_running, clientFreed, shutdownPc, workerPc, unsent, tick, submitted,
           hiddenDeviceIds, failedToHideDeviceIds, activeVirtualXInputDevices,
           activeVirtualDInputDevices, nested, attempts,
           g_running, m_refreshRequested, mainPc, unserved >>

\* the variables of the device lifecycle and of the button word
deviceVars == << m_initialized, m_virtualDevices, m_hidHideEnabled, m_hidHideController,
                 m_injectionQueue, m_connected, hidHideFailed, driverBlacklist,
           driverWhitelist, driverActive, driverInverse,
                 m_hiddenDeviceIds, m_failedToHideDeviceIds,
                 m_activeVirtualXInputDevices, m_activeVirtualDInputDevices,
                 devicesHiddenThisSession, m_xinputToDInputEnabled, m_dinputToXInputEnabled,
                 inputStates, translationEnabled, hidHideEnabled, pc,
                 lastOp, calls, returnedIds, addedToBlacklist, driverFaulted >>
captureVars == << m_controllerStates, captureHung, enumerated >>
socdVars == << m_socdMethod, gamepad, socd >>
stickVars == << m_stickDeadzoneEnabled, m_leftStickDeadzone, m_rightStickDeadzone,
                m_leftStickAntiDeadzone, m_rightStickAntiDeadzone >>
hidVars == << hidState, converted >>
rumbleVars == << m_rumbleEnabled, m_rumbleIntensity, m_rumbleCallback, rumble >>
lockVars == << m_devicesMutex, m_deviceCallback, callerPc, pending >>
threadVars == << m_running, clientFreed, shutdownPc, workerPc, unsent, tick, submitted >>
mainVars == << hiddenDeviceIds, failedToHideDeviceIds, activeVirtualXInputDevices,
              activeVirtualDInputDevices >>
programVars == << nested, attempts >>
loopVars == << g_running, m_refreshRequested, mainPc, unserved >>
conversionVars == << socdVars, translateResult, stickVars, hidVars, rumbleVars, lockVars,
                    threadVars, mainVars, programVars, loopVars >>
buttonVars == << m_socdCleaningEnabled, m_debouncingEnabled, m_debounceIntervalMs,
                 m_lastButtonChangeTime, performanceCounter, acceptedButtons, translated >>

-----------------------------------------------------------------------------
(* Bounds of the model *)

NumSlots == 1        \* XInput slots in a snapshot (the program has XUSER_MAX_COUNT)
NumHid == 1          \* HID-stack devices that can appear in a snapshot
MaxFaults == 1       \* kinds of driver call that may fail during one operation
MaxQueue == 3        \* reports the injection queue holds before the worker drains it
StartCounter == 6    \* the performance counter when the program starts
MaxCounter == 12     \* the performance counter stops here
Frequency == 500     \* ticks per second of the performance counter (one tick is 2 ms)
CaptureSlots == 1    \* XInput slots of the capture layer (the program has XUSER_MAX_COUNT)
MaxEnumerated == 1   \* device interfaces one enumeration reports
MaxTargets == 2      \* targets the emulator is asked to hold when it is driven directly
NumPassHid == 2      \* HID devices in the snapshots of one pass in depth

(* Program constants *)

TARGET_XINPUT == 0
TARGET_DINPUT == 1
MAX_CONTROLLERS == 16

TargetTypes == {TARGET_XINPUT, TARGET_DINPUT}

-----------------------------------------------------------------------------
(* Generic helpers *)

Range(s) == {s[i] : i \in 1..Len(s)}

SeqRemoveAt(s, i) ==
    [j \in 1..(Len(s) - 1) |-> IF j < i THEN s[j] ELSE s[j + 1]]

\* index of the first element of s that satisfies Test, 0 when there is none
FirstIndex(s, Test(_)) ==
    IF \E i \in 1..Len(s) : Test(s[i])
    THEN CHOOSE i \in 1..Len(s) : Test(s[i]) /\ \A j \in 1..(i - 1) : ~Test(s[j])
    ELSE 0

EmptyMap == [u \in {} |-> 0]
MapHas(m, k) == k \in DOMAIN m
MapPut(m, k, v) == [u \in (DOMAIN m) \cup {k} |-> IF u = k THEN v ELSE m[u]]
MapErase(m, k) == [u \in (DOMAIN m) \ {k} |-> m[u]]

\* value handed to Continue once it has been computed (one statement after
\* another)
Then(value, Continue(_)) == CHOOSE result \in {Continue(v) : v \in {value}} : TRUE

MinOf(S) == CHOOSE x \in S : \A y \in S : x <= y

-----------------------------------------------------------------------------
(* The machine state as one record, so that the handlers can be written as  *)
(* functions from state to state, statement by statement.                   *)

St ==
    [ m_initialized |-> m_initialized,
      m_virtualDevices |-> m_virtualDevices,
      m_hidHideEnabled |-> m_hidHideEnabled,
      m_hidHideController |-> m_hidHideController,
      m_injectionQueue |-> m_injectionQueue,
      m_connected |-> m_connected,
      hidHideFailed |-> hidHideFailed,
      driverBlacklist |-> driverBlacklist,
      driverWhitelist |-> driverWhitelist,
      driverActive |-> driverActive,
      driverInverse |-> driverInverse,
      m_hiddenDeviceIds |-> m_hiddenDeviceIds,
      m_failedToHideDeviceIds |-> m_failedToHideDeviceIds,
      m_activeVirtualXInputDevices |-> m_activeVirtualXInputDevices,
      m_activeVirtualDInputDevices |-> m_activeVirtualDInputDevices,
      devicesHiddenThisSession |-> devicesHiddenThisSession,
      m_xinputToDInputEnabled |-> m_xinputToDInputEnabled,
      m_dinputToXInputEnabled |-> m_dinputToXInputEnabled,
      calls |-> << >>,
      returnedIds |-> returnedIds,
      addedToBlacklist |-> addedToBlacklist,
      driverFaulted |-> driverFaulted ]

\* the operation named op leaves the emulator, the manager and the driver
\* in state st
Machine(state, op) ==
    \E st \in {state} :
        /\ m_initialized' = st.m_initialized
        /\ m_virtualDevices' = st.m_virtualDevices
        /\ m_hidHideEnabled' = st.m_hidHideEnabled
        /\ m_hidHideController' = st.m_hidHideController
        /\ m_injectionQueue' = st.m_injectionQueue
        /\ m_connected' = st.m_connected
        /\ hidHideFailed' = st.hidHideFailed
        /\ driverBlacklist' = st.driverBlacklist
        /\ driverWhitelist' = st.driverWhitelist
        /\ driverActive' = st.driverActive
        /\ driverInverse' = st.driverInverse
        /\ m_hiddenDeviceIds' = st.m_hiddenDeviceIds
        /\ m_failedToHideDeviceIds' = st.m_failedToHideDeviceIds
        /\ m_activeVirtualXInputDevices' = st.m_activeVirtualXInputDevices
        /\ m_activeVirtualDInputDevices' = st.m_activeVirtualDInputDevices
        /\ devicesHiddenThisSession' = st.devicesHiddenThisSession
        /\ m_xinputToDInputEnabled' = st.m_xinputToDInputEnabled
        /\ m_dinputToXInputEnabled' = st.m_dinputToXInputEnabled
        /\ calls' = st.calls
        /\ returnedIds' = st.returnedIds
        /\ addedToBlacklist' = st.addedToBlacklist
        /\ lastOp' = op
        /\ driverFaulted' = st.driverFaulted

\* the operation named op leaves the machine in state st
Becomes(state, op) ==
    /\ Machine(state, op)
    /\ UNCHANGED << buttonVars, captureVars, conversionVars >>

Log(st, call) == [st EXCEPT !.calls = Append(@, call)]

\* the call that the calls logged in st were made for
LogFirst(st, call) == [st EXCEPT !.calls = << call >> \o @]

-----------------------------------------------------------------------------
(* HidHideController (src/utils/hidhide_controller.cpp).  The driver keeps  *)
(* its blacklist as a list of instance ids; an IOCTL named in faults fails. *)

\* DeviceIoControl on the handle of the driver: the call is logged, and a
\* failed one is remembered in driverFaulted
DeviceIoControl(st, code, faults) ==
    [st |-> Log(IF code \in faults THEN [st EXCEPT !.driverFaulted = TRUE] ELSE st,
                [op |-> "DeviceIoControl", code |-> code, ok |-> code \notin faults]),
     ret |-> code \notin faults]

\* HidHideController::sendIoctl
sendIoctl(st, code, faults) ==
    IF ~st.m_connected THEN [st |-> st, ret |-> FALSE]
    ELSE DeviceIoControl(st, code, faults)

\* a getBlacklist that asks the driver whether the client is connected or not
getBlacklistUnguarded(st, faults) ==
    [st |-> DeviceIoControl(st, "get_blacklist", faults).st, ret |-> st.driverBlacklist]

\* HidHideController::getBlacklist
getBlacklist(st, faults) ==
    IF ~st.m_connected THEN [st |-> st, ret |-> << >>]
    ELSE LET result == DeviceIoControl(st, "get_blacklist", faults) IN
         [st |-> result.st, ret |-> IF result.ret THEN st.driverBlacklist ELSE << >>]

\* HidHideController::addDeviceToBlacklist
addDeviceToBlacklist(st, devicePath, faults) ==
    IF ~st.m_connected THEN [st |-> st, ret |-> FALSE]
    ELSE LET got == getBlacklist(st, faults)
             currentList == got.ret
         IN
         IF currentList = << >> /\ ~st.hidHideFailed
         THEN [st |-> [got.st EXCEPT !.hidHideFailed = TRUE], ret |-> FALSE]
         ELSE IF st.hidHideFailed THEN [st |-> got.st, ret |-> FALSE]
         ELSE IF devicePath \in Range(currentList) THEN [st |-> got.st, ret |-> TRUE]
         ELSE LET result == sendIoctl(got.st, "set_blacklist", faults) IN
              [st |-> IF result.ret
                      THEN [result.st EXCEPT
                                !.driverBlacklist = Append(currentList, devicePath),
                                !.addedToBlacklist = @ \cup {devicePath}]
                      ELSE result.st,
               ret |-> result.ret]

\* HidHideController::removeDeviceFromBlacklist
removeDeviceFromBlacklist(st, devicePath, faults) ==
    IF ~st.m_connected THEN [st |-> st, ret |-> FALSE]
    ELSE LET got == getBlacklist(st, faults)
             currentList == got.ret
             it == FirstIndex(currentList, LAMBDA p : p = devicePath)
         IN IF it = 0 THEN [st |-> got.st, ret |-> TRUE]
            ELSE LET result == sendIoctl(got.st, "set_blacklist", faults) IN
                 [st |-> IF result.ret
                         THEN [result.st EXCEPT !.driverBlacklist = SeqRemoveAt(currentList, it)]
                         ELSE result.st,
                  ret |-> result.ret]

\* HidHideController::clearBlacklist
clearBlacklist(st, faults) ==
    IF ~st.m_connected THEN [st |-> st, ret |-> FALSE]
    ELSE LET result == sendIoctl(st, "set_blacklist", faults) IN
         [st |-> IF result.ret THEN [result.st EXCEPT !.driverBlacklist = << >>] ELSE result.st,
          ret |-> result.ret]

\* HidHideController::getWhitelist
getWhitelist(st, faults) ==
    IF ~st.m_connected THEN [st |-> st, ret |-> << >>]
    ELSE LET result == DeviceIoControl(st, "get_whitelist", faults) IN
         [st |-> result.st, ret |-> IF result.ret THEN st.driverWhitelist ELSE << >>]

\* HidHideController::addProcessToWhitelist
addProcessToWhitelist(st, processPath, faults) ==
    IF ~st.m_connected THEN [st |-> st, ret |-> FALSE]
    ELSE LET got == getWhitelist(st, faults)
             currentList == got.ret
         IN IF processPath \in Range(currentList) THEN [st |-> got.st, ret |-> TRUE]
            ELSE LET result == sendIoctl(got.st, "set_whitelist", faults) IN
                 [st |-> IF result.ret
                         THEN [result.st EXCEPT
                                   !.driverWhitelist = Append(currentList, processPath)]
                         ELSE result.st,
                  ret |-> result.ret]

\* HidHideController::removeProcessFromWhitelist
removeProcessFromWhitelist(st, processPath, faults) ==
    IF ~st.m_connected THEN [st |-> st, ret |-> FALSE]
    ELSE LET got == getWhitelist(st, faults)
             currentList == got.ret
             it == FirstIndex(currentList, LAMBDA p : p = processPath)
         IN IF it = 0 THEN [st |-> got.st, ret |-> TRUE]
            ELSE LET result == sendIoctl(got.st, "set_whitelist", faults) IN
                 [st |-> IF result.ret
                         THEN [result.st EXCEPT !.driverWhitelist = SeqRemoveAt(currentList, it)]
                         ELSE result.st,
                  ret |-> result.ret]

\* HidHideController::clearWhitelist
clearWhitelist(st, faults) ==
    IF ~st.m_connected THEN [st |-> st, ret |-> FALSE]
    ELSE LET result == sendIoctl(st, "set_whitelist", faults) IN
         [st |-> IF result.ret THEN [result.st EXCEPT !.driverWhitelist = << >>] ELSE result.st,
          ret |-> result.ret]

\* HidHideController::setActive
setActive(st, active, faults) ==
    IF ~st.m_connected THEN [st |-> st, ret |-> FALSE]
    ELSE LET result == sendIoctl(st, "set_active", faults) IN
         [st |-> IF result.ret THEN [result.st EXCEPT !.driverActive = active] ELSE result.st,
          ret |-> result.ret]

\* HidHideController::setInverseMode
setInverseMode(st, inverse, faults) ==
    IF ~st.m_connected THEN [st |-> st, ret |-> FALSE]
    ELSE LET result == sendIoctl(st, "set_wlinverse", faults) IN
         [st |-> IF result.ret THEN [result.st EXCEPT !.driverInverse = inverse] ELSE result.st,
          ret |-> result.ret]

\* HidHideController::connect; connectOk is what CreateFileW answers
connect(st, connectOk) ==
    IF st.m_connected THEN [st |-> st, ret |-> TRUE]
    ELSE IF ~connectOk THEN [st |-> [st EXCEPT !.driverFaulted = TRUE], ret |-> FALSE]
    ELSE LET connected == [st EXCEPT !.m_connected = TRUE]
             active == DeviceIoControl(connected, "get_active", {})
         IN [st |-> DeviceIoControl(active.st, "get_wlinverse", {}).st, ret |-> TRUE]

\* HidHideController::disconnect
disconnect(st) == [st EXCEPT !.m_connected = FALSE]

-----------------------------------------------------------------------------
(* VirtualDeviceEmulator (src/core/virtual_device_emulator.cpp)             *)

Ids(devices) == {devices[i].id : i \in 1..Len(devices)}

\* an id allocator that counts the records instead of searching for a gap
FindAvailableIdByCount(devices) == Len(devices)

\* "Find an available ID": the lowest id that no record of the list carries
FindAvailableId(devices) ==
    CHOOSE newId \in 0..Len(devices) :
        /\ newId \notin Ids(devices)
        /\ \A k \in 0..(newId - 1) : k \in Ids(devices)

\* createVirtualXInputDeviceTarget / createVirtualDInputDeviceTarget: the
\* target handle is non-null unless the bus driver refuses the target
createVirtualDeviceTarget(st, type, faults) ==
    IF type = TARGET_XINPUT THEN "x360_add" \notin faults ELSE "ds4_add" \notin faults

\* a createVirtualDevice that does not look at m_initialized
createVirtualDeviceUninitialized(st, type, userId, faults) ==
    [st |-> [st EXCEPT !.m_virtualDevices =
                           Append(@, [id |-> FindAvailableId(st.m_virtualDevices), type |-> type,
                                      userId |-> userId, connected |-> TRUE, target |-> TRUE])],
     ret |-> FindAvailableId(st.m_virtualDevices)]

\* VirtualDeviceEmulator::createVirtualDevice
createVirtualDevice(st, type, userId, faults) ==
    IF ~st.m_initialized THEN [st |-> st, ret |-> -1]
    ELSE LET newId == FindAvailableId(st.m_virtualDevices)
             target == createVirtualDeviceTarget(st, type, faults)
         IN IF ~target THEN [st |-> st, ret |-> -1]
            ELSE [st |-> [st EXCEPT
                          !.m_virtualDevices =
                              Append(@, [id |-> newId, type |-> type, userId |-> userId,
                                         connected |-> TRUE, target |-> TRUE]),
                          !.returnedIds = @ \cup {newId}],
                  ret |-> newId]

\* VirtualDeviceEmulator::destroyVirtualDevice
destroyVirtualDevice(st, deviceId) ==
    IF ~st.m_initialized THEN [st |-> st, ret |-> FALSE]
    ELSE LET it == FirstIndex(st.m_virtualDevices, LAMBDA d : d.id = deviceId) IN
         IF it # 0
         THEN [st |-> [st EXCEPT !.m_virtualDevices = SeqRemoveAt(@, it)], ret |-> TRUE]
         ELSE [st |-> st, ret |-> FALSE]

\* the common shape of sendToVirtualXInputDevice and
\* sendToVirtualDInputDevice: the first record of the userId and the profile
\* gets the report; a failed update clears its connected flag
sendToVirtualDevice(st, userId, type, updateOk) ==
    LET it == FirstIndex(st.m_virtualDevices,
                         LAMBDA d : d.userId = userId /\ d.type = type)
    IN IF it = 0 THEN [st |-> st, ret |-> FALSE]
       ELSE IF ~st.m_virtualDevices[it].target \/ ~st.m_virtualDevices[it].connected
            THEN [st |-> st, ret |-> FALSE]
       ELSE IF ~st.m_initialized THEN [st |-> st, ret |-> FALSE]
       ELSE IF ~updateOk
            THEN [st |-> [st EXCEPT !.m_virtualDevices[it].connected = FALSE], ret |-> FALSE]
       ELSE [st |-> Log(st, [op |-> "vigem_target_update",
                             id |-> st.m_virtualDevices[it].id]),
             ret |-> TRUE]

\* VirtualDeviceEmulator::sendToVirtualXInputDevice
sendToVirtualXInputDevice(st, userId, faults) ==
    sendToVirtualDevice(st, userId, TARGET_XINPUT, "x360_update" \notin faults)

\* VirtualDeviceEmulator::sendToVirtualDInputDevice
sendToVirtualDInputDevice(st, userId, faults) ==
    sendToVirtualDevice(st, userId, TARGET_DINPUT, "ds4_update" \notin faults)

\* the loop of VirtualDeviceEmulator::sendInput: a state whose immediate
\* send fails is appended to the injection queue
RECURSIVE sendInputFrom(_, _, _, _)
sendInputFrom(st, translatedStates, i, faults) ==
    IF i > Len(translatedStates) THEN st
    ELSE LET state == translatedStates[i]
             r == IF state.targetType = TARGET_XINPUT
                  THEN sendToVirtualXInputDevice(st, state.sourceUserId, faults)
                  ELSE sendToVirtualDInputDevice(st, state.sourceUserId, faults)
             a == IF r.ret THEN r.st
                  ELSE [r.st EXCEPT !.m_injectionQueue = Append(@, state)]
         IN Then(a, LAMBDA next : sendInputFrom(next, translatedStates, i + 1, faults))

\* VirtualDeviceEmulator::sendInput
sendInput(st, translatedStates, faults) ==
    IF ~st.m_initialized THEN [st |-> st, ret |-> FALSE]
    ELSE [st |-> sendInputFrom(st, translatedStates, 1, faults), ret |-> TRUE]

\* VirtualDeviceEmulator::shutdown
shutdown(st) ==
    IF ~st.m_initialized THEN st
    ELSE [st EXCEPT !.m_virtualDevices = << >>, !.m_initialized = FALSE]

\* one pass of the injection thread over a non-empty queue: every queued
\* state is sent once more, then the queue is cleared
RECURSIVE injectFrom(_, _, _)
injectFrom(st, i, faults) ==
    IF i > Len(st.m_injectionQueue) THEN [st EXCEPT !.m_injectionQueue = << >>]
    ELSE LET state == st.m_injectionQueue[i]
             r == IF state.targetType = TARGET_XINPUT
                  THEN sendToVirtualXInputDevice(st, state.sourceUserId, faults)
                  ELSE sendToVirtualDInputDevice(st, state.sourceUserId, faults)
         IN Then(r.st, LAMBDA next : injectFrom(next, i + 1, faults))

\* VirtualDeviceEmulator::disconnectHidHide
disconnectHidHide(st) ==
    IF st.m_hidHideController THEN disconnect(st) ELSE st

\* VirtualDeviceEmulator::connectHidHide
connectHidHide(st, connectOk) ==
    IF ~st.m_hidHideEnabled \/ ~st.m_hidHideController THEN [st |-> st, ret |-> FALSE]
    ELSE connect(st, connectOk)

\* VirtualDeviceEmulator::enableHidHideIntegration
enableHidHideIntegration(st, enable, connectOk) ==
    IF st.m_hidHideEnabled = enable THEN st
    ELSE LET a == [st EXCEPT !.m_hidHideEnabled = enable] IN
         IF enable
         THEN connectHidHide([a EXCEPT !.m_hidHideController = TRUE], connectOk).st
         ELSE IF a.m_hidHideController THEN disconnectHidHide(a) ELSE a

\* VirtualDeviceEmulator::addPhysicalDeviceToHidHideBlacklist
addPhysicalDeviceToHidHideBlacklist(st, deviceInstanceId, faults) ==
    IF ~st.m_hidHideEnabled \/ ~st.m_hidHideController THEN [st |-> st, ret |-> FALSE]
    ELSE addDeviceToBlacklist(st, deviceInstanceId, faults)

\* VirtualDeviceEmulator::removePhysicalDeviceFromHidHideBlacklist
removePhysicalDeviceFromHidHideBlacklist(st, deviceInstanceId, faults) ==
    IF ~st.m_hidHideEnabled \/ ~st.m_hidHideController THEN [st |-> st, ret |-> FALSE]
    ELSE removeDeviceFromBlacklist(st, deviceInstanceId, faults)

-----------------------------------------------------------------------------
(* TranslationLayer (src/core/translation_layer.cpp): where translate sends *)
(* the state of a source.                                                   *)

\* TranslationLayer::convertXInputToStandard (source and target profile)
convertXInputToStandard(st, inputState) ==
    [sourceUserId |-> inputState.userId,
     isXInputSource |-> TRUE,
     timestamp |-> inputState.timestamp,
     targetType |-> IF st.m_xinputToDInputEnabled THEN TARGET_DINPUT ELSE TARGET_XINPUT]

\* TranslationLayer::convertHIDToStandard (source and target profile)
convertHIDToStandard(st, inputState) ==
    [sourceUserId |-> -1,
     isXInputSource |-> FALSE,
     timestamp |-> inputState.timestamp,
     targetType |-> IF st.m_dinputToXInputEnabled THEN TARGET_XINPUT ELSE TARGET_DINPUT]

\* translate with no entry skipped
RECURSIVE translateAll(_, _)
translateAll(st, inputStates_) ==
    IF inputStates_ = << >> THEN << >>
    ELSE << IF Head(inputStates_).userId >= 0
            THEN convertXInputToStandard(st, Head(inputStates_))
            ELSE convertHIDToStandard(st, Head(inputStates_)) >>
         \o translateAll(st, Tail(inputStates_))

\* TranslationLayer::translate, the loop over the snapshot: a state with a
\* packet number or a userId >= 0 is converted as XInput, one with a device
\* path as HID, any other is skipped; no state is skipped for being
\* disconnected
RECURSIVE translate(_, _)
translate(st, inputStates_) ==
    IF inputStates_ = << >> THEN << >>
    ELSE LET inputState == Head(inputStates_)
             translatedState ==
                 IF inputState.dwPacketNumber > 0 \/ inputState.userId >= 0
                 THEN << convertXInputToStandard(st, inputState) >>
                 ELSE IF inputState.devicePath # ""
                      THEN << convertHIDToStandard(st, inputState) >>
                      ELSE << >>
         IN translatedState \o translate(st, Tail(inputStates_))

-----------------------------------------------------------------------------
(* TranslationLayer: the gamepad state convertHIDToStandard makes of a HID   *)
(* source, and the stick deadzone.  LONG and int values stay within 32 bits  *)
(* here; SHORT is the 16-bit two's complement the build targets.  A float in *)
(* [-1, 1] is kept in thousandths.                                          *)

USAGE_X == 48
USAGE_Y == 49
USAGE_Z == 50
USAGE_RX == 51
USAGE_RY == 52
USAGE_RZ == 53

\* static_cast<SHORT>(n)
ToShort(n) == ((n + 32768) % 65536) - 32768

\* a / b of two integers in C, b > 0: the quotient is rounded toward zero
TruncDiv(a, b) == IF a >= 0 THEN a \div b ELSE -((-a) \div b)

\* a / b to the nearest integer, b > 0
RoundDiv(a, b) == IF a >= 0 THEN (2 * a + b) \div (2 * b) ELSE -((2 * (-a) + b) \div (2 * b))

\* std::sqrt, to the integer below
Sqrt(n) == CHOOSE r \in 0..1500 : r * r <= n /\ (r + 1) * (r + 1) > n

\* TranslationLayer::initializeProfiles: the buttonMap of the profile named
\* "Wireless Controller"
ds4ButtonMap ==
    (1 :> "X") @@ (2 :> "A") @@ (3 :> "B") @@ (4 :> "Y") @@
    (5 :> "LEFT_SHOULDER") @@ (6 :> "RIGHT_SHOULDER") @@ (9 :> "BACK") @@
    (10 :> "START") @@ (11 :> "LEFT_THUMB") @@ (12 :> "RIGHT_THUMB")

\* the generic mapping of button usages 1..4
genericButtonMap == (1 :> "A") @@ (2 :> "B") @@ (3 :> "X") @@ (4 :> "Y")

\* the lambda normalizeAxis: (rawValue - center) / (range / 2.0) * 32767.0,
\* clamped to [-32768, 32767], cast to SHORT, then negated and cast again
\* when invert is set.  The cast of the clamped double rounds toward zero.
normalizeAxis(rawValue, center, range, invert) ==
    LET distance == IF rawValue >= center THEN rawValue - center ELSE center - rawValue
        quotient == (2 * distance) \div range
        remainder == (2 * distance) % range
        magnitude == IF quotient >= 2 THEN 65534
                     ELSE quotient * 32767 + (remainder * 32767) \div range
        result == IF rawValue >= center
                  THEN (IF magnitude > 32767 THEN 32767 ELSE magnitude)
                  ELSE -(IF magnitude > 32768 THEN 32768 ELSE magnitude)
    IN IF invert THEN ToShort(-result) ELSE result

\* the lambda normalizeTrigger
normalizeTrigger(rawValue, logicalMin, range) ==
    IF rawValue < logicalMin THEN 0
    ELSE LET normalized == ((rawValue - logicalMin) * 255) \div range
         IN IF normalized > 255 THEN 255 ELSE normalized

\* the axes of the source named "Wireless Controller"
ds4Axis(value, invert) ==
    IF invert THEN ToShort((128 - value) * 256) ELSE ToShort((value - 128) * 256)

\* the gamepad state TranslationLayer::convertHIDToStandard makes
convertHIDGamepad(inputState) ==
    LET values == inputState.m_hidValues
        has(usage) == usage \in DOMAIN values
        isCapOf(usage, cap) == cap.UsagePage = 1 /\ cap.UsageMin = usage
        capIndex(usage) ==
            IF \E i \in 1..Len(inputState.valueCaps) : isCapOf(usage, inputState.valueCaps[i])
            THEN CHOOSE i \in 1..Len(inputState.valueCaps) :
                     /\ isCapOf(usage, inputState.valueCaps[i])
                     /\ \A j \in 1..(i - 1) : ~isCapOf(usage, inputState.valueCaps[j])
            ELSE 0
        logicalMin(usage) ==
            IF capIndex(usage) = 0 THEN 0 ELSE inputState.valueCaps[capIndex(usage)].LogicalMin
        logicalMax(usage) ==
            IF capIndex(usage) = 0 THEN 65535
            ELSE inputState.valueCaps[capIndex(usage)].LogicalMax
        center(usage) == TruncDiv(logicalMax(usage) + logicalMin(usage), 2)
        range(usage) == IF logicalMax(usage) - logicalMin(usage) = 0 THEN 1
                        ELSE logicalMax(usage) - logicalMin(usage)
        axis(usage, invert) ==
            IF has(usage)
            THEN normalizeAxis(values[usage], center(usage), range(usage), invert)
            ELSE 0
        trigger(usage) ==
            IF has(usage)
            THEN normalizeTrigger(values[usage], logicalMin(usage), range(usage))
            ELSE 0
        ds4(usage, invert) == IF has(usage) THEN ds4Axis(values[usage], invert) ELSE 0
    IN IF inputState.productName = "Wireless Controller"
       THEN [wButtons |-> {ds4ButtonMap[usage] :
                              usage \in inputState.m_activeButtons \cap DOMAIN ds4ButtonMap},
             bLeftTrigger |-> 0, bRightTrigger |-> 0,
             sThumbLX |-> ds4(USAGE_X, FALSE), sThumbLY |-> ds4(USAGE_Y, TRUE),
             sThumbRX |-> ds4(USAGE_Z, FALSE), sThumbRY |-> ds4(USAGE_RZ, TRUE)]
       ELSE [wButtons |-> {genericButtonMap[usage] :
                              usage \in inputState.m_activeButtons \cap DOMAIN genericButtonMap},
             bLeftTrigger |-> trigger(USAGE_RX), bRightTrigger |-> trigger(USAGE_RY),
             sThumbLX |-> axis(USAGE_X, FALSE), sThumbLY |-> axis(USAGE_Y, TRUE),
             sThumbRX |-> axis(USAGE_Z, FALSE), sThumbRY |-> axis(USAGE_RZ, TRUE)]

\* TranslationLayer::applyScaledRadialDeadzone: thumbX and thumbY after the
\* call.  deadzone and antiDeadzone are in thousandths and deadzone < 1000;
\* x, y, magnitude, the direction and normalizedMagnitude are in thousandths.
applyScaledRadialDeadzone(thumbX, thumbY, deadzone, antiDeadzone) ==
    LET x == RoundDiv(thumbX * 1000, 32767)
        y == RoundDiv(thumbY * 1000, 32767)
        magnitude == Sqrt(x * x + y * y)
        directionX == IF magnitude > 0 THEN TruncDiv(x * 1000, magnitude) ELSE 0
        directionY == IF magnitude > 0 THEN TruncDiv(y * 1000, magnitude) ELSE 0
        scaled == TruncDiv((magnitude - deadzone) * 1000, 1000 - deadzone)
        lifted == IF antiDeadzone > 0 /\ scaled > 0
                  THEN antiDeadzone + ((1000 - antiDeadzone) * scaled) \div 1000
                  ELSE scaled
        normalizedMagnitude == IF lifted > 1000 THEN 1000 ELSE lifted
        back(direction) ==
            ToShort(TruncDiv(TruncDiv(direction * normalizedMagnitude, 100) * 32767, 10000))
    IN IF x * x + y * y < deadzone * deadzone
       THEN [thumbX |-> 0, thumbY |-> 0]
       ELSE [thumbX |-> back(directionX), thumbY |-> back(directionY)]

\* the stick drift mitigation of translate, on both sticks
applyStickDeadzones(state, leftDeadzone, leftAnti, rightDeadzone, rightAnti) ==
    LET left == applyScaledRadialDeadzone(state.sThumbLX, state.sThumbLY, leftDeadzone, leftAnti)
        right == applyScaledRadialDeadzone(state.sThumbRX, state.sThumbRY,
                                           rightDeadzone, rightAnti)
    IN [state EXCEPT !.sThumbLX = left.thumbX, !.sThumbLY = left.thumbY,
                     !.sThumbRX = right.thumbX, !.sThumbRY = right.thumbY]

-----------------------------------------------------------------------------
(* DeviceManager (src/core/device_manager.cpp).  Each call the manager      *)
(* makes on the emulator is appended to calls with the snapshot entry       *)
(* (index) it was made for.                                                 *)

\* hidePhysicalDevice without the look-up in m_failedToHideDeviceIds
hidePhysicalDeviceRetrying(st, state, entry, faults) ==
    IF state.deviceInstanceId = "" THEN [st |-> st, ret |-> FALSE]
    ELSE IF state.userId >= 0 THEN [st |-> st, ret |-> FALSE]
    ELSE IF state.deviceInstanceId \in st.m_hiddenDeviceIds THEN [st |-> st, ret |-> TRUE]
    ELSE Then(addPhysicalDeviceToHidHideBlacklist(st, state.deviceInstanceId, faults),
              LAMBDA r :
                  LET logged == Log(r.st, [op |-> "addPhysicalDeviceToHidHideBlacklist",
                                           deviceInstanceId |-> state.deviceInstanceId,
                                           entry |-> entry, ret |-> r.ret])
                  IN IF r.ret
                     THEN [st |-> [logged EXCEPT !.m_hiddenDeviceIds =
                                                     @ \cup {state.deviceInstanceId}],
                           ret |-> TRUE]
                     ELSE [st |-> [logged EXCEPT !.m_failedToHideDeviceIds =
                                                     @ \cup {state.deviceInstanceId}],
                           ret |-> FALSE])

\* DeviceManager::hidePhysicalDevice
hidePhysicalDevice(st, state, entry, faults) ==
    IF state.deviceInstanceId = "" THEN [st |-> st, ret |-> FALSE]
    ELSE IF state.userId >= 0 THEN [st |-> st, ret |-> FALSE]
    ELSE IF state.deviceInstanceId \in st.m_hiddenDeviceIds THEN [st |-> st, ret |-> TRUE]
    ELSE IF state.deviceInstanceId \in st.m_failedToHideDeviceIds THEN [st |-> st, ret |-> FALSE]
    ELSE Then(addPhysicalDeviceToHidHideBlacklist(st, state.deviceInstanceId, faults),
              LAMBDA r :
                  LET logged == Log(r.st, [op |-> "addPhysicalDeviceToHidHideBlacklist",
                                           deviceInstanceId |-> state.deviceInstanceId,
                                           entry |-> entry, ret |-> r.ret])
                  IN IF r.ret
                     THEN [st |-> [logged EXCEPT !.m_hiddenDeviceIds =
                                                     @ \cup {state.deviceInstanceId}],
                           ret |-> TRUE]
                     ELSE [st |-> [logged EXCEPT !.m_failedToHideDeviceIds =
                                                     @ \cup {state.deviceInstanceId}],
                           ret |-> FALSE])

\* what a branch of createVirtualDevicesForController does with the id that
\* createVirtualDevice has returned
recordVirtualDevice(st, r, state, entry, type) ==
    LET virtualId == r.ret
        logged == Log(r.st, [op |-> "createVirtualDevice", type |-> type,
                             userId |-> state.userId, entry |-> entry,
                             ret |-> virtualId,
                             liveIds |-> Ids(st.m_virtualDevices),
                             fresh |-> virtualId \notin st.returnedIds])
    IN IF virtualId >= 0
       THEN IF type = TARGET_DINPUT
            THEN [logged EXCEPT !.m_activeVirtualDInputDevices =
                                    MapPut(@, state.userId, virtualId)]
            ELSE [logged EXCEPT !.m_activeVirtualXInputDevices =
                                    MapPut(@, state.userId, virtualId)]
       ELSE logged

\* the branch without the look-up in the manager's map
createVirtualDeviceOfTypeUnguarded(st, state, entry, type, faults) ==
    Then(createVirtualDevice(st, type, state.userId, faults),
         LAMBDA r : recordVirtualDevice(st, r, state, entry, type))

\* one branch of createVirtualDevicesForController: the target of one profile
createVirtualDeviceOfType(st, state, entry, type, faults) ==
    LET active == IF type = TARGET_DINPUT THEN st.m_activeVirtualDInputDevices
                                          ELSE st.m_activeVirtualXInputDevices
    IN IF MapHas(active, state.userId) THEN st
       ELSE Then(createVirtualDevice(st, type, state.userId, faults),
                 LAMBDA r : recordVirtualDevice(st, r, state, entry, type))

\* createVirtualDevicesForController without the tests of the direction flags
createVirtualDevicesForControllerAnyDirection(st, state, entry, faults) ==
    Then(createVirtualDeviceOfType(st, state, entry, TARGET_DINPUT, faults),
         LAMBDA a : createVirtualDeviceOfType(a, state, entry, TARGET_XINPUT, faults))

\* DeviceManager::createVirtualDevicesForController
createVirtualDevicesForController(st, state, entry, faults) ==
    Then(IF st.m_xinputToDInputEnabled
         THEN createVirtualDeviceOfType(st, state, entry, TARGET_DINPUT, faults)
         ELSE st,
         LAMBDA a : IF a.m_dinputToXInputEnabled
                    THEN createVirtualDeviceOfType(a, state, entry, TARGET_XINPUT, faults)
                    ELSE a)

\* one branch of destroyVirtualDevicesForController: the target that one of
\* the two maps holds for the userId
destroyVirtualDeviceOfType(st, userId, entry, type) ==
    LET active == IF type = TARGET_DINPUT THEN st.m_activeVirtualDInputDevices
                                          ELSE st.m_activeVirtualXInputDevices
    IN IF ~MapHas(active, userId) THEN st
       ELSE Then(destroyVirtualDevice(st, active[userId]),
                 LAMBDA r :
                     LET logged == Log(r.st, [op |-> "destroyVirtualDevice",
                                              id |-> active[userId],
                                              entry |-> entry, ret |-> r.ret])
                     IN IF type = TARGET_DINPUT
                        THEN [logged EXCEPT !.m_activeVirtualDInputDevices = MapErase(@, userId)]
                        ELSE [logged EXCEPT !.m_activeVirtualXInputDevices = MapErase(@, userId)])

\* DeviceManager::destroyVirtualDevicesForController
destroyVirtualDevicesForController(st, userId, entry) ==
    Then(destroyVirtualDeviceOfType(st, userId, entry, TARGET_XINPUT),
         LAMBDA a : destroyVirtualDeviceOfType(a, userId, entry, TARGET_DINPUT))

\* the first half of the loop body of processDevices for a connected entry:
\* the device is hidden when masking applies to it, and the program waits
\* the first time a device has been hidden
hideIfRequested(st, state, entry, hidHideOn, faults) ==
    LET shouldHide == /\ hidHideOn
                      /\ st.m_hidHideEnabled
                      /\ state.userId < 0
                      /\ st.m_dinputToXInputEnabled
    IN IF ~shouldHide THEN st
       ELSE Then(hidePhysicalDevice(st, state, entry, faults),
                 LAMBDA h :
                     LET wasHidden == h.ret IN
                     IF /\ wasHidden
                        /\ state.deviceInstanceId \in h.st.m_hiddenDeviceIds
                        /\ state.deviceInstanceId \notin h.st.devicesHiddenThisSession
                     THEN [Log(h.st, [op |-> "sleep_for", entry |-> entry])
                           EXCEPT !.devicesHiddenThisSession =
                                      @ \cup {state.deviceInstanceId}]
                     ELSE h.st)

\* the body of the loop of DeviceManager::processDevices for one entry
processDevice(st, state, entry, translationOn, hidHideOn, faults) ==
    IF state.isConnected
    THEN Then(hideIfRequested(st, state, entry, hidHideOn, faults),
              LAMBDA a : IF translationOn
                         THEN createVirtualDevicesForController(a, state, entry, faults)
                         ELSE a)
    ELSE destroyVirtualDevicesForController(st, state.userId, entry)

RECURSIVE processDevicesFrom(_, _, _, _, _, _)
processDevicesFrom(st, states, entry, translationOn, hidHideOn, faults) ==
    IF entry > Len(states) THEN st
    ELSE Then(processDevice(st, states[entry], entry, translationOn, hidHideOn, faults),
              LAMBDA next : processDevicesFrom(next, states, entry + 1,
                                               translationOn, hidHideOn, faults))

\* DeviceManager::processDevices
processDevices(st, states, translationOn, hidHideOn, faults) ==
    processDevicesFrom(Log(st, [op |-> "processDevices", inputStates |-> states,
                                translationEnabled |-> translationOn,
                                hidHideEnabled |-> hidHideOn]),
                       states, 1, translationOn, hidHideOn, faults)

\* the loop of cleanup over m_hiddenDeviceIds (the ids are removed one by
\* one; the result does not depend on the order of the set)
RECURSIVE unhideAll(_, _, _)
unhideAll(st, ids, faults) ==
    IF ids = {} THEN st
    ELSE LET deviceId == CHOOSE d \in ids : TRUE
             r == removePhysicalDeviceFromHidHideBlacklist(st, deviceId, faults)
         IN Then(Log(r.st, [op |-> "removePhysicalDeviceFromHidHideBlacklist",
                            deviceInstanceId |-> deviceId, ret |-> r.ret]),
                 LAMBDA next : unhideAll(next, ids \ {deviceId}, faults))

\* the loops of cleanup over a userId -> virtualId map, in key order
RECURSIVE destroyAll(_, _)
destroyAll(st, active) ==
    IF DOMAIN active = {} THEN st
    ELSE LET userId == MinOf(DOMAIN active)
             r == destroyVirtualDevice(st, active[userId])
         IN Then(Log(r.st, [op |-> "destroyVirtualDevice", id |-> active[userId],
                            entry |-> 0, ret |-> r.ret]),
                 LAMBDA next : destroyAll(next, MapErase(active, userId)))

\* DeviceManager::cleanup
cleanup(st, faults) ==
    LET a == IF st.m_hidHideEnabled
             THEN disconnectHidHide(
                      [unhideAll(st, st.m_hiddenDeviceIds, faults)
                       EXCEPT !.m_hiddenDeviceIds = {}])
             ELSE st
        b == [destroyAll(a, a.m_activeVirtualXInputDevices)
              EXCEPT !.m_activeVirtualXInputDevices = EmptyMap]
    IN [destroyAll(b, b.m_activeVirtualDInputDevices)
        EXCEPT !.m_activeVirtualDInputDevices = EmptyMap]

-----------------------------------------------------------------------------
(* The environment: the physical devices the capture layer reports and the  *)
(* driver calls that fail.                                                  *)

HidNames == << "HID\\A", "HID\\B", "HID\\C", "HID\\D" >>
HidIds == {HidNames[i] : i \in 1..NumHid}

\* a snapshot entry (the fields of ControllerState the manager reads)
XInputEntry(slot, isConnected) ==
    [userId |-> slot, isConnected |-> isConnected,
     deviceInstanceId |-> IF isConnected THEN "USB\\X" ELSE "",
     dwPacketNumber |-> IF isConnected THEN 1 ELSE 0, devicePath |-> "", timestamp |-> 0]
HidEntry(deviceInstanceId, isConnected) ==
    [userId |-> -1, isConnected |-> isConnected, deviceInstanceId |-> deviceInstanceId,
     dwPacketNumber |-> 0, devicePath |-> "\\\\?\\hid", timestamp |-> 0]

\* the snapshots InputCapture::getInputStates can hand out: the XInput slots
\* first, in slot order (InputCapture::initializeXInput), then the HID
\* devices in the order the enumeration found them (HidNames lists them in
\* that order)
SlotSnapshots ==
    {[i \in 1..NumSlots |-> XInputEntry(i - 1, c[i])] : c \in [1..NumSlots -> BOOLEAN]}
HidSnapshots ==
    UNION {{[i \in 1..n |-> HidEntry(HidNames[i], c[i])] : c \in [1..n -> BOOLEAN]}
           : n \in 0..NumHid}
Snapshots == {s \o h : s \in SlotSnapshots, h \in HidSnapshots}

FaultKinds == {"x360_add", "ds4_add", "get_blacklist", "set_blacklist"}
FaultSets == {f \in SUBSET FaultKinds : Cardinality(f) <= MaxFaults}

-----------------------------------------------------------------------------
(* The state after construction *)

NoTranslation == [userId |-> -1, debouncing |-> FALSE]

NoCallback == [by |-> "none", device |-> 0]

\* everything but the gamepad state a conversion works on
InitMachine ==
    /\ m_initialized = FALSE
    /\ m_virtualDevices = << >>
    /\ m_hidHideEnabled = FALSE
    /\ m_hidHideController = FALSE
    /\ m_injectionQueue = << >>
    /\ m_connected = FALSE
    /\ hidHideFailed = FALSE
    /\ driverBlacklist = << >>
    /\ driverWhitelist = << >>
    /\ driverActive = TRUE
    /\ driverInverse = FALSE
    /\ m_hiddenDeviceIds = {}
    /\ m_failedToHideDeviceIds = {}
    /\ m_activeVirtualXInputDevices = EmptyMap
    /\ m_activeVirtualDInputDevices = EmptyMap
    /\ devicesHiddenThisSession = {}
    /\ m_xinputToDInputEnabled = TRUE
    /\ m_dinputToXInputEnabled = TRUE
    /\ translationEnabled = FALSE
    /\ hidHideEnabled = FALSE
    /\ pc = "update"
    /\ lastOp = "construct"
    /\ calls = << >>
    /\ returnedIds = {}
    /\ addedToBlacklist = {}
    /\ driverFaulted = FALSE
    /\ m_socdCleaningEnabled = TRUE
    /\ m_debouncingEnabled = FALSE
    /\ m_debounceIntervalMs = 10
    /\ m_lastButtonChangeTime = [userId \in 0..(MAX_CONTROLLERS - 1) |-> 0]
    /\ performanceCounter = StartCounter
    /\ acceptedButtons = [userId \in {} |-> {}]
    /\ translated = NoTranslation
    /\ m_controllerStates = << >>
    /\ captureHung = FALSE
    /\ enumerated = [ids |-> {}, known |-> {}]
    /\ m_socdMethod = 2
    /\ m_stickDeadzoneEnabled = TRUE
    /\ m_leftStickDeadzone = 150
    /\ m_rightStickDeadzone = 150
    /\ m_leftStickAntiDeadzone = 0
    /\ m_rightStickAntiDeadzone = 0
    /\ m_rumbleEnabled = TRUE
    /\ m_rumbleIntensity = 100
    /\ m_rumbleCallback = FALSE
    /\ rumble = << >>
    /\ m_devicesMutex = "free"
    /\ m_deviceCallback = FALSE
    /\ callerPc = "idle"
    /\ pending = NoCallback
    /\ m_running = FALSE
    /\ clientFreed = FALSE
    /\ shutdownPc = "idle"
    /\ workerPc = -2
    /\ unsent = << >>
    /\ tick = 0
    /\ submitted = << >>
    /\ hiddenDeviceIds = {}
    /\ failedToHideDeviceIds = {}
    /\ activeVirtualXInputDevices = EmptyMap
    /\ activeVirtualDInputDevices = EmptyMap
    /\ nested = {}
    /\ attempts = [t \in {} |-> 0]
    /\ g_running = TRUE
    /\ m_refreshRequested = FALSE
    /\ mainPc = "start"
    /\ unserved = FALSE

NoSOCD == [method |-> 2, before |-> {}, after |-> {}, again |-> FALSE, applied |-> FALSE]
NotTranslated == [done |-> FALSE, out |-> << >>]
NoHidState == [productName |-> "", m_activeButtons |-> {}, m_hidValues |-> EmptyMap,
               valueCaps |-> << >>]
NoGamepad == [wButtons |-> {}, bLeftTrigger |-> 0, bRightTrigger |-> 0,
              sThumbLX |-> 0, sThumbLY |-> 0, sThumbRX |-> 0, sThumbRY |-> 0]
NotConverted == [done |-> FALSE, gamepad |-> NoGamepad]

\* no conversion under way
InitConversion ==
    /\ gamepad = NoGamepad
    /\ socd = NoSOCD
    /\ translateResult = NotTranslated
    /\ hidState = NoHidState
    /\ converted = NotConverted

Init ==
    /\ InitMachine
    /\ inputStates = [i \in 1..NumSlots |-> XInputEntry(i - 1, FALSE)]
    /\ InitConversion

Orchestrator == << inputStates, translationEnabled, hidHideEnabled, pc >>

-----------------------------------------------------------------------------
(* Operations of the device lifecycle.  lastOp names the DeviceManager      *)
(* operation when it was the latest step.                                   *)

\* VirtualDeviceEmulator::initialize; ok is what connecting to ViGEmBus answers
Initialize ==
    \E ok \in BOOLEAN :
        /\ Becomes(IF m_initialized THEN St ELSE [St EXCEPT !.m_initialized = ok], "none")
        /\ UNCHANGED Orchestrator

\* TranslationLayer::setXInputToDInputMapping
SetXInputToDInputMapping ==
    \E enabled \in BOOLEAN :
        /\ Becomes([St EXCEPT !.m_xinputToDInputEnabled = enabled], "none")
        /\ UNCHANGED Orchestrator

\* TranslationLayer::setDInputToXInputMapping
SetDInputToXInputMapping ==
    \E enabled \in BOOLEAN :
        /\ Becomes([St EXCEPT !.m_dinputToXInputEnabled = enabled], "none")
        /\ UNCHANGED Orchestrator

\* VirtualDeviceEmulator::enableHidHideIntegration
EnableHidHideIntegration ==
    \E enable \in BOOLEAN, connectOk \in BOOLEAN :
        /\ Becomes(enableHidHideIntegration(St, enable, connectOk), "none")
        /\ UNCHANGED Orchestrator

\* DeviceManager::processDevices, called with any snapshot and any flags
ProcessDevices ==
    \E states \in Snapshots, translationOn \in BOOLEAN, hidHideOn \in BOOLEAN,
       faults \in FaultSets :
        /\ Becomes(processDevices(St, states, translationOn, hidHideOn, faults),
                   "processDevices")
        /\ UNCHANGED Orchestrator

\* DeviceManager::cleanup
Cleanup ==
    \E faults \in FaultSets :
        /\ Becomes(cleanup(St, faults), "cleanup")
        /\ UNCHANGED Orchestrator

\* another client of the filter driver (the HidHide configuration tool)
\* puts a device of its own on the blacklist
ForeignBlacklistEntry ==
    /\ "HID\\FOREIGN" \notin Range(driverBlacklist)
    /\ Becomes([St EXCEPT !.driverBlacklist = Append(@, "HID\\FOREIGN")], "none")
    /\ UNCHANGED Orchestrator

\* Target lifecycle: the emulator is brought up, the HidHide integration is
\* never switched on.
Next ==
    \/ Initialize
    \/ SetXInputToDInputMapping
    \/ SetDInputToXInputMapping
    \/ ProcessDevices
    \/ Cleanup

Spec == Init /\ [][Next]_vars

\* Device masking: the HidHide integration is switched on and off, the
\* emulator is never initialized (createVirtualDevice answers -1).
NextMasking ==
    \/ ForeignBlacklistEntry
    \/ EnableHidHideIntegration
    \/ SetDInputToXInputMapping
    \/ ProcessDevices
    \/ Cleanup

SpecMasking == Init /\ [][NextMasking]_vars

\* the snapshots with up to NumPassHid HID devices behind the XInput slots
PassSnapshots ==
    {s \o h : s \in SlotSnapshots,
              h \in UNION {{[i \in 1..n |-> HidEntry(HidNames[i], c[i])]
                               : c \in [1..n -> BOOLEAN]} : n \in 0..NumPassHid}}

\* DeviceManager::processDevices on a snapshot of several HID devices, every
\* call of the bus and of the filter driver succeeding
ProcessPass ==
    \E states \in PassSnapshots, translationOn \in BOOLEAN, hidHideOn \in BOOLEAN,
       faults \in {{}} :
        /\ Becomes(processDevices(St, states, translationOn, hidHideOn, faults),
                   "processDevices")
        /\ UNCHANGED Orchestrator

\* One pass in depth: the emulator is brought up and the HidHide integration
\* switched on, both directions stay enabled, several HID devices are
\* connected at once.
NextPass ==
    \/ Initialize
    \/ EnableHidHideIntegration
    \/ ProcessPass

SpecPass == Init /\ [][NextPass]_vars

\* the HID devices of a snapshot for masking: two devices and one whose
\* instance id could not be read
HideIds == {"", "HID\\A", "HID\\B"}
HideSnapshots ==
    UNION {{s \in [1..n -> {HidEntry(id, c) : id \in HideIds, c \in BOOLEAN}] :
               \A i, j \in 1..n : s[i].deviceInstanceId = s[j].deviceInstanceId => i = j}
           : n \in 0..NumPassHid}
HideFaultSets == {f \in FaultSets : f \subseteq {"get_blacklist", "set_blacklist"}}

\* DeviceManager::processDevices on a snapshot of HID devices with
\* translation off, the calls of the filter driver failing or not
ProcessHide ==
    \E states \in HideSnapshots, translationOn \in {FALSE}, hidHideOn \in BOOLEAN,
       faults \in HideFaultSets :
        /\ Becomes(processDevices(St, states, translationOn, hidHideOn, faults),
                   "processDevices")
        /\ UNCHANGED Orchestrator

\* DeviceManager::cleanup, the calls of the filter driver failing or not
CleanupHide ==
    \E faults \in HideFaultSets :
        /\ Becomes(cleanup(St, faults), "cleanup")
        /\ UNCHANGED Orchestrator

\* Masking in depth: the emulator is never brought up, the HidHide
\* integration is switched on and off, another program may have put a device
\* on the driver's blacklist, the snapshots hold devices with and without an
\* instance id.
NextHide ==
    \/ ForeignBlacklistEntry
    \/ EnableHidHideIntegration
    \/ ProcessHide
    \/ CleanupHide

SpecHide == Init /\ [][NextHide]_vars

-----------------------------------------------------------------------------
(* The main loop of the orchestrator: update the capture layer, process the *)
(* devices of the snapshot, translate and send; beside it the injection     *)
(* thread of the emulator and the dashboard.                                *)

UpdateFaultKinds == {"x360_update", "ds4_update"}
UpdateFaultSets == {f \in SUBSET UpdateFaultKinds : Cardinality(f) <= MaxFaults}

\* InputCapture::update and getInputStates: entries are never erased
LoopUpdate ==
    /\ pc = "update"
    /\ inputStates' \in {s \in Snapshots : Len(s) >= Len(inputStates)}
    /\ pc' = "process"
    /\ Becomes(St, "none")
    /\ UNCHANGED << translationEnabled, hidHideEnabled >>

\* DeviceManager::processDevices on the snapshot of this iteration
LoopProcessDevices ==
    /\ pc = "process"
    /\ \E faults \in FaultSets :
          Becomes(processDevices(St, inputStates, translationEnabled, hidHideEnabled, faults),
                  "processDevices")
    /\ pc' = "send"
    /\ UNCHANGED << inputStates, translationEnabled, hidHideEnabled >>

\* translate and sendInput, when translation is enabled; the loop is held
\* back while the injection queue has no room for the reports of one pass
LoopSendInput ==
    /\ pc = "send"
    /\ Len(m_injectionQueue) + Len(inputStates) <= MaxQueue
    /\ \E faults \in UpdateFaultSets :
          Becomes(IF translationEnabled
                  THEN sendInput(St, translate(St, inputStates), faults).st
                  ELSE St,
                  "sendInput")
    /\ pc' = "update"
    /\ UNCHANGED << inputStates, translationEnabled, hidHideEnabled >>

\* the injection thread finds the queue non-empty
InjectionThread ==
    /\ m_initialized
    /\ m_injectionQueue # << >>
    /\ \E faults \in UpdateFaultSets : Becomes(injectFrom(St, 1, faults), "inject")
    /\ UNCHANGED Orchestrator

\* the "Enable Translation Layer" checkbox of the dashboard
SetTranslationEnabled ==
    /\ translationEnabled' = ~translationEnabled
    /\ Becomes(St, "none")
    /\ UNCHANGED << inputStates, hidHideEnabled, pc >>

NextLoop ==
    \/ Initialize
    \/ SetTranslationEnabled
    \/ LoopUpdate
    \/ LoopProcessDevices
    \/ LoopSendInput
    \/ InjectionThread

\* the loop and the injection thread keep running; what the devices and the
\* user do is left open
SpecLoop ==
    /\ Init
    /\ [][NextLoop]_vars
    /\ WF_vars(LoopUpdate)
    /\ WF_vars(LoopProcessDevices)
    /\ WF_vars(LoopSendInput)
    /\ WF_vars(InjectionThread)

-----------------------------------------------------------------------------
(* The HidHide client driven directly through its public operations.        *)
(* calls[1] holds the operation, its argument and answer and what the       *)
(* client and the driver held before it; the IOCTLs it sent follow.         *)

HidHideCall(op, path, ret) ==
    [op |-> op, path |-> path, ret |-> ret, connected |-> m_connected,
     blacklist |-> driverBlacklist, whitelist |-> driverWhitelist,
     active |-> driverActive, inverse |-> driverInverse]

DevicePaths == {HidNames[1], HidNames[2]}
ProcessPaths == {"proxy.exe"}
IoctlCodes == {"get_blacklist", "set_blacklist", "get_whitelist", "set_whitelist",
               "set_active", "set_wlinverse"}
IoctlFaultSets == {f \in SUBSET IoctlCodes : Cardinality(f) <= MaxFaults}

\* the state after the operation, with the operation and its answer logged
Answered(r, op, path) == LogFirst(r.st, HidHideCall(op, path, r.ret))

\* HidHideController::connect
Connect ==
    \E connectOk \in BOOLEAN :
        /\ Becomes(Answered(connect(St, connectOk), "connect", ""),
                   "hidhide")
        /\ UNCHANGED Orchestrator

\* HidHideController::disconnect
Disconnect ==
    /\ Becomes(Answered([st |-> disconnect(St), ret |-> TRUE], "disconnect", ""), "hidhide")
    /\ UNCHANGED Orchestrator

\* HidHideController::addDeviceToBlacklist
AddDeviceToBlacklist ==
    \E devicePath \in DevicePaths, faults \in IoctlFaultSets :
        /\ Becomes(Answered(addDeviceToBlacklist(St, devicePath, faults), "addDeviceToBlacklist", devicePath),
                   "hidhide")
        /\ UNCHANGED Orchestrator

\* HidHideController::removeDeviceFromBlacklist
RemoveDeviceFromBlacklist ==
    \E devicePath \in DevicePaths, faults \in IoctlFaultSets :
        /\ Becomes(Answered(removeDeviceFromBlacklist(St, devicePath, faults), "removeDeviceFromBlacklist", devicePath),
                   "hidhide")
        /\ UNCHANGED Orchestrator

\* HidHideController::clearBlacklist
ClearBlacklist ==
    \E faults \in IoctlFaultSets :
        /\ Becomes(Answered(clearBlacklist(St, faults), "clearBlacklist", ""),
                   "hidhide")
        /\ UNCHANGED Orchestrator

\* HidHideController::getBlacklist
GetBlacklist ==
    \E faults \in IoctlFaultSets :
        /\ Becomes(Answered(getBlacklist(St, faults), "getBlacklist", ""),
                   "hidhide")
        /\ UNCHANGED Orchestrator

\* HidHideController::addProcessToWhitelist
AddProcessToWhitelist ==
    \E processPath \in ProcessPaths, faults \in IoctlFaultSets :
        /\ Becomes(Answered(addProcessToWhitelist(St, processPath, faults), "addProcessToWhitelist", processPath),
                   "hidhide")
        /\ UNCHANGED Orchestrator

\* HidHideController::removeProcessFromWhitelist
RemoveProcessFromWhitelist ==
    \E processPath \in ProcessPaths, faults \in IoctlFaultSets :
        /\ Becomes(Answered(removeProcessFromWhitelist(St, processPath, faults), "removeProcessFromWhitelist", processPath),
                   "hidhide")
        /\ UNCHANGED Orchestrator

\* HidHideController::clearWhitelist
ClearWhitelist ==
    \E faults \in IoctlFaultSets :
        /\ Becomes(Answered(clearWhitelist(St, faults), "clearWhitelist", ""),
                   "hidhide")
        /\ UNCHANGED Orchestrator

\* HidHideController::getWhitelist
GetWhitelist ==
    \E faults \in IoctlFaultSets :
        /\ Becomes(Answered(getWhitelist(St, faults), "getWhitelist", ""),
                   "hidhide")
        /\ UNCHANGED Orchestrator

\* HidHideController::setActive
SetActive ==
    \E active \in BOOLEAN, faults \in IoctlFaultSets :
        /\ Becomes(Answered(setActive(St, active, faults), "setActive", ""),
                   "hidhide")
        /\ UNCHANGED Orchestrator

\* HidHideController::setInverseMode
SetInverseMode ==
    \E inverse \in BOOLEAN, faults \in IoctlFaultSets :
        /\ Becomes(Answered(setInverseMode(St, inverse, faults), "setInverseMode", ""),
                   "hidhide")
        /\ UNCHANGED Orchestrator

NextHidHide ==
    \/ ForeignBlacklistEntry
    \/ Connect
    \/ Disconnect
    \/ AddDeviceToBlacklist
    \/ RemoveDeviceFromBlacklist
    \/ ClearBlacklist
    \/ GetBlacklist
    \/ AddProcessToWhitelist
    \/ RemoveProcessFromWhitelist
    \/ ClearWhitelist
    \/ GetWhitelist
    \/ SetActive
    \/ SetInverseMode

SpecHidHide == Init /\ [][NextHidHide]_vars

-----------------------------------------------------------------------------
(* The emulator driven directly through its public operations.  calls[1]    *)
(* holds the operation, what was in the emulator before it and its answer.  *)

EmulatorCall(op, translatedStates, ret) ==
    [op |-> op, translatedStates |-> translatedStates, ret |-> ret,
     initialized |-> m_initialized, devices |-> m_virtualDevices,
     queue |-> m_injectionQueue]

\* the reports a caller hands to sendInput
TranslatedStates ==
    LET one == [sourceUserId : {-1, 0}, targetType : TargetTypes]
    IN {<< >>} \cup {<< t >> : t \in one}

\* VirtualDeviceEmulator::shutdown
Shutdown ==
    /\ Becomes(LogFirst(shutdown(St), EmulatorCall("shutdown", << >>, TRUE)), "emulator")
    /\ UNCHANGED Orchestrator

\* VirtualDeviceEmulator::createVirtualDevice
CreateVirtualDevice ==
    /\ Len(m_virtualDevices) < MaxTargets
    /\ \E type \in TargetTypes, userId \in {-1, 0}, faults \in FaultSets :
          \E r \in {createVirtualDevice(St, type, userId, faults)} :
              Becomes(LogFirst(r.st, EmulatorCall("createVirtualDevice", << >>, r.ret)), "emulator")
    /\ UNCHANGED Orchestrator

\* VirtualDeviceEmulator::destroyVirtualDevice
DestroyVirtualDevice ==
    /\ \E deviceId \in -1..MaxTargets :
          \E r \in {destroyVirtualDevice(St, deviceId)} :
              Becomes(LogFirst(r.st, EmulatorCall("destroyVirtualDevice", << >>, r.ret)), "emulator")
    /\ UNCHANGED Orchestrator

\* VirtualDeviceEmulator::sendInput
SendInput ==
    /\ \E translatedStates \in TranslatedStates, faults \in UpdateFaultSets :
          /\ Len(m_injectionQueue) + Len(translatedStates) <= MaxQueue
          /\ \E r \in {sendInput(St, translatedStates, faults)} :
                Becomes(LogFirst(r.st, EmulatorCall("sendInput", translatedStates, r.ret)),
                        "emulator")
    /\ UNCHANGED Orchestrator

NextEmulator ==
    \/ Initialize
    \/ Shutdown
    \/ CreateVirtualDevice
    \/ DestroyVirtualDevice
    \/ SendInput
    \/ InjectionThread

SpecEmulator == Init /\ [][NextEmulator]_vars

-----------------------------------------------------------------------------
(* Rumble passthrough of the emulator.  A motor power handed to the rumble   *)
(* callback is a float in [0, 1]; it is kept in units of 1/25500, so that a  *)
(* motor byte over 255 and an intensity in hundredths are both whole.       *)

MotorBytes == {0, 128, 255}
Intensities == {-50, 0, 25, 100, 150}

RumbleOnly ==
    UNCHANGED << deviceVars, buttonVars, captureVars, socdVars, translateResult, stickVars,
                 hidVars, lockVars, threadVars, mainVars, programVars, loopVars >>

\* the calls of the callback for all virtual devices with one power
callbackForAll(power, by) ==
    [i \in 1..Len(m_virtualDevices) |->
        [by |-> by, userId |-> m_virtualDevices[i].userId, left |-> power, right |-> power,
         largeMotor |-> 0, smallMotor |-> 0]]

\* VirtualDeviceEmulator::setRumbleCallback
SetRumbleCallback ==
    /\ m_rumbleCallback' = ~m_rumbleCallback
    /\ rumble' = << >>
    /\ UNCHANGED << m_rumbleEnabled, m_rumbleIntensity >>
    /\ RumbleOnly

\* VirtualDeviceEmulator::setRumbleEnabled
SetRumbleEnabled ==
    \E enabled \in BOOLEAN :
        /\ m_rumbleEnabled' = enabled
        /\ rumble' = IF m_rumbleCallback
                     THEN callbackForAll(IF enabled THEN m_rumbleIntensity * 255 ELSE 0,
                                         "setRumbleEnabled")
                     ELSE << >>
        /\ UNCHANGED << m_rumbleIntensity, m_rumbleCallback >>
        /\ RumbleOnly

\* VirtualDeviceEmulator::setRumbleIntensity
SetRumbleIntensity ==
    \E requested \in Intensities :
        LET intensity == IF requested < 0 THEN 0 ELSE IF requested > 100 THEN 100 ELSE requested
        IN /\ m_rumbleIntensity' = intensity
           /\ rumble' = IF m_rumbleEnabled /\ m_rumbleCallback
                        THEN callbackForAll(intensity * 255, "setRumbleIntensity")
                        ELSE << >>
           /\ UNCHANGED << m_rumbleEnabled, m_rumbleCallback >>
           /\ RumbleOnly

\* VirtualDeviceEmulator::x360Notification: the bus reports the motors a
\* game set on a virtual Xbox 360 pad; userData is the userId the target
\* was registered with
X360Notification ==
    \E i \in 1..Len(m_virtualDevices), largeMotor \in MotorBytes, smallMotor \in MotorBytes :
        /\ m_virtualDevices[i].type = TARGET_XINPUT
        /\ rumble' = IF m_rumbleCallback
                     THEN << [by |-> "x360Notification",
                              userId |-> m_virtualDevices[i].userId,
                              left |-> largeMotor * 100, right |-> smallMotor * 100,
                              largeMotor |-> largeMotor, smallMotor |-> smallMotor] >>
                     ELSE << >>
        /\ UNCHANGED << m_rumbleEnabled, m_rumbleIntensity, m_rumbleCallback >>
        /\ RumbleOnly

NextRumble ==
    \/ Initialize
    \/ CreateVirtualDevice
    \/ SetRumbleCallback
    \/ SetRumbleEnabled
    \/ SetRumbleIntensity
    \/ X360Notification

SpecRumble == Init /\ [][NextRumble]_vars

-----------------------------------------------------------------------------
(* The proxy loop of main (src/main.cpp): the loop over the snapshot that   *)
(* masks the devices and keeps the targets, with the sets and maps that are *)
(* locals of main.                                                          *)

Locals ==
    [st |-> St,
     hiddenDeviceIds |-> hiddenDeviceIds,
     failedToHideDeviceIds |-> failedToHideDeviceIds,
     activeVirtualXInputDevices |-> activeVirtualXInputDevices,
     activeVirtualDInputDevices |-> activeVirtualDInputDevices]

\* step 1 of the loop body: the HidHide logic for a connected entry
hideInLoop(loop, state, entry, hidHideOn, faults) ==
    IF /\ hidHideOn
       /\ loop.st.m_hidHideEnabled
       /\ state.deviceInstanceId # ""
       /\ state.deviceInstanceId \notin loop.hiddenDeviceIds
       /\ state.deviceInstanceId \notin loop.failedToHideDeviceIds
    THEN Then(addPhysicalDeviceToHidHideBlacklist(loop.st, state.deviceInstanceId, faults),
              LAMBDA r :
                  LET logged == Log(r.st, [op |-> "addPhysicalDeviceToHidHideBlacklist",
                                           deviceInstanceId |-> state.deviceInstanceId,
                                           entry |-> entry, ret |-> r.ret])
                  IN IF r.ret
                     THEN [loop EXCEPT !.st = logged,
                                       !.hiddenDeviceIds = @ \cup {state.deviceInstanceId}]
                     ELSE [loop EXCEPT !.st = logged,
                                       !.failedToHideDeviceIds =
                                           @ \cup {state.deviceInstanceId}])
    ELSE loop

\* step 2 of the loop body, one profile: the target is created unless the
\* map of main holds one for the userId
createInLoop(loop, state, entry, type, faults) ==
    LET active == IF type = TARGET_DINPUT THEN loop.activeVirtualDInputDevices
                                          ELSE loop.activeVirtualXInputDevices
    IN IF MapHas(active, state.userId) THEN loop
       ELSE Then(createVirtualDevice(loop.st, type, state.userId, faults),
                 LAMBDA r :
                     LET logged == Log(r.st, [op |-> "createVirtualDevice", type |-> type,
                                              userId |-> state.userId, entry |-> entry,
                                              ret |-> r.ret])
                     IN IF r.ret < 0 THEN [loop EXCEPT !.st = logged]
                        ELSE IF type = TARGET_DINPUT
                             THEN [loop EXCEPT !.st = logged,
                                               !.activeVirtualDInputDevices =
                                                   MapPut(@, state.userId, r.ret)]
                        ELSE [loop EXCEPT !.st = logged,
                                          !.activeVirtualXInputDevices =
                                              MapPut(@, state.userId, r.ret)])

\* the handling of a disconnected entry, one profile
destroyInLoop(loop, state, entry, type) ==
    LET active == IF type = TARGET_DINPUT THEN loop.activeVirtualDInputDevices
                                          ELSE loop.activeVirtualXInputDevices
    IN IF ~MapHas(active, state.userId) THEN loop
       ELSE Then(destroyVirtualDevice(loop.st, active[state.userId]),
                 LAMBDA r :
                     LET logged == Log(r.st, [op |-> "destroyVirtualDevice",
                                              id |-> active[state.userId],
                                              entry |-> entry, ret |-> r.ret])
                     IN IF type = TARGET_DINPUT
                        THEN [loop EXCEPT !.st = logged,
                                          !.activeVirtualDInputDevices =
                                              MapErase(@, state.userId)]
                        ELSE [loop EXCEPT !.st = logged,
                                          !.activeVirtualXInputDevices =
                                              MapErase(@, state.userId)])

\* the body of the loop over the snapshot for one entry
loopBody(loop, state, entry, translationOn, hidHideOn, faults) ==
    IF state.isConnected
    THEN Then(hideInLoop(loop, state, entry, hidHideOn, faults),
              LAMBDA a :
                  IF ~translationOn THEN a
                  ELSE Then(IF a.st.m_xinputToDInputEnabled
                            THEN createInLoop(a, state, entry, TARGET_DINPUT, faults)
                            ELSE a,
                            LAMBDA b : IF b.st.m_dinputToXInputEnabled
                                       THEN createInLoop(b, state, entry, TARGET_XINPUT, faults)
                                       ELSE b))
    ELSE Then(destroyInLoop(loop, state, entry, TARGET_XINPUT),
              LAMBDA a : destroyInLoop(a, state, entry, TARGET_DINPUT))

RECURSIVE loopFrom(_, _, _, _, _, _)
loopFrom(loop, states, entry, translationOn, hidHideOn, faults) ==
    IF entry > Len(states) THEN loop
    ELSE Then(loopBody(loop, states[entry], entry, translationOn, hidHideOn, faults),
              LAMBDA next : loopFrom(next, states, entry + 1, translationOn, hidHideOn, faults))

\* one pass of the proxy loop over the snapshot of the capture layer
MainLoopDevices ==
    /\ \E states \in Snapshots, translationOn \in BOOLEAN, hidHideOn \in BOOLEAN,
          faults \in FaultSets :
          \E loop \in {loopFrom([Locals EXCEPT !.st =
                                     Log(St, [op |-> "main", inputStates |-> states,
                                              translationEnabled |-> translationOn,
                                              hidHideEnabled |-> hidHideOn])],
                                 states, 1, translationOn, hidHideOn, faults)} :
              /\ Machine(loop.st, "main")
              /\ hiddenDeviceIds' = loop.hiddenDeviceIds
              /\ failedToHideDeviceIds' = loop.failedToHideDeviceIds
              /\ activeVirtualXInputDevices' = loop.activeVirtualXInputDevices
              /\ activeVirtualDInputDevices' = loop.activeVirtualDInputDevices
    /\ UNCHANGED << Orchestrator, buttonVars, captureVars, socdVars, translateResult,
                    stickVars, hidVars, rumbleVars, lockVars, threadVars,
                    programVars, loopVars >>

\* The proxy loop with the HidHide integration and the two directions
\* switched on and off; the emulator is never initialized
\* (createVirtualDevice answers -1).
NextMain ==
    \/ EnableHidHideIntegration
    \/ SetXInputToDInputMapping
    \/ SetDInputToXInputMapping
    \/ MainLoopDevices

SpecMain == Init /\ [][NextMain]_vars

-----------------------------------------------------------------------------
(* The callbacks of the emulator and m_devicesMutex.  One thread calls the   *)
(* public operations; an operation that fires a callback is followed up to  *)
(* the call of the callback, and the callback then either returns or calls  *)
(* a public operation that locks m_devicesMutex (getVirtualDeviceCount,     *)
(* getVirtualDevices).  m_devicesMutex is a std::mutex: locking it in the    *)
(* thread that owns it is undefined, and the builds either block the thread *)
(* for ever or end the program.                                             *)

RelockOutcomes == {"blocked", "terminated"}

CallbackOnly ==
    UNCHANGED << buttonVars, captureVars, socdVars, translateResult, stickVars, hidVars,
                 threadVars, mainVars, programVars, loopVars >>

\* a callback is fired for device while the lock_guard of the operation is
\* in scope
fire(by, device) ==
    /\ callerPc' = "in_callback"
    /\ m_devicesMutex' = "caller"
    /\ pending' = [by |-> by, device |-> device]

\* VirtualDeviceEmulator::setDeviceConnectCallback
SetDeviceConnectCallback ==
    /\ callerPc = "idle"
    /\ m_deviceCallback' = ~m_deviceCallback
    /\ UNCHANGED << m_devicesMutex, callerPc, pending, deviceVars, rumbleVars >>
    /\ CallbackOnly

\* VirtualDeviceEmulator::createVirtualDevice, up to the call of
\* m_deviceCallback(newId, true) or, without one, to the end
CallCreateVirtualDevice ==
    /\ callerPc = "idle"
    /\ Len(m_virtualDevices) < MaxTargets
    /\ \E type \in TargetTypes, userId \in {-1, 0}, faults \in FaultSets :
          \E r \in {createVirtualDevice(St, type, userId, faults)} :
              /\ Machine(LogFirst(r.st, EmulatorCall("createVirtualDevice", << >>, r.ret)),
                         "emulator")
              /\ IF r.ret >= 0 /\ m_deviceCallback
                 THEN fire("createVirtualDevice", r.ret)
                 ELSE UNCHANGED << m_devicesMutex, callerPc, pending >>
    /\ UNCHANGED << Orchestrator, m_deviceCallback, rumbleVars >>
    /\ CallbackOnly

\* VirtualDeviceEmulator::destroyVirtualDevice, up to the call of
\* m_deviceCallback(deviceId, false) or, without one, to the end
CallDestroyVirtualDevice ==
    /\ callerPc = "idle"
    /\ \E deviceId \in -1..MaxTargets :
          \E r \in {destroyVirtualDevice(St, deviceId)} :
              /\ Machine(LogFirst(r.st, EmulatorCall("destroyVirtualDevice", << >>, r.ret)),
                         "emulator")
              /\ IF r.ret /\ m_deviceCallback
                 THEN fire("destroyVirtualDevice", deviceId)
                 ELSE UNCHANGED << m_devicesMutex, callerPc, pending >>
    /\ UNCHANGED << Orchestrator, m_deviceCallback, rumbleVars >>
    /\ CallbackOnly

\* VirtualDeviceEmulator::setRumbleEnabled, up to the first call of
\* m_rumbleCallback in the loop over the devices or, without one, to the end
CallSetRumbleEnabled ==
    /\ callerPc = "idle"
    /\ \E enabled \in BOOLEAN :
          /\ m_rumbleEnabled' = enabled
          /\ rumble' = << >>
          /\ IF m_rumbleCallback /\ m_virtualDevices # << >>
             THEN fire("setRumbleEnabled", 1)
             ELSE UNCHANGED << m_devicesMutex, callerPc, pending >>
    /\ UNCHANGED << m_rumbleIntensity, m_rumbleCallback, m_deviceCallback, deviceVars >>
    /\ CallbackOnly

\* VirtualDeviceEmulator::setRumbleIntensity, up to the first call of
\* m_rumbleCallback in the loop over the devices or, without one, to the end
CallSetRumbleIntensity ==
    /\ callerPc = "idle"
    /\ \E requested \in Intensities :
          /\ m_rumbleIntensity' =
                 IF requested < 0 THEN 0 ELSE IF requested > 100 THEN 100 ELSE requested
          /\ rumble' = << >>
          /\ IF m_rumbleEnabled /\ m_rumbleCallback /\ m_virtualDevices # << >>
             THEN fire("setRumbleIntensity", 1)
             ELSE UNCHANGED << m_devicesMutex, callerPc, pending >>
    /\ UNCHANGED << m_rumbleEnabled, m_rumbleCallback, m_deviceCallback, deviceVars >>
    /\ CallbackOnly

\* the callback returns: the loop of a rumble operation calls it for the
\* next device, any other operation ends and its lock_guard releases the
\* mutex
CallbackReturns ==
    /\ callerPc = "in_callback"
    /\ IF /\ pending.by \in {"setRumbleEnabled", "setRumbleIntensity"}
          /\ pending.device < Len(m_virtualDevices)
       THEN /\ pending' = [pending EXCEPT !.device = @ + 1]
            /\ UNCHANGED << m_devicesMutex, callerPc >>
       ELSE /\ pending' = NoCallback
            /\ m_devicesMutex' = "free"
            /\ callerPc' = "idle"
    /\ UNCHANGED << m_deviceCallback, deviceVars, rumbleVars >>
    /\ CallbackOnly

\* the callback calls getVirtualDeviceCount or getVirtualDevices, whose
\* lock_guard locks m_devicesMutex
CallbackCallsEmulator ==
    /\ callerPc = "in_callback"
    /\ IF m_devicesMutex = "caller"
       THEN callerPc' \in RelockOutcomes
       ELSE UNCHANGED callerPc
    /\ UNCHANGED << m_devicesMutex, pending, m_deviceCallback, deviceVars, rumbleVars >>
    /\ CallbackOnly

NextCallbacks ==
    \/ Initialize
    \/ SetDeviceConnectCallback
    \/ SetRumbleCallback
    \/ CallCreateVirtualDevice
    \/ CallDestroyVirtualDevice
    \/ CallSetRumbleEnabled
    \/ CallSetRumbleIntensity
    \/ CallbackReturns
    \/ CallbackCallsEmulator

SpecCallbacks == Init /\ [][NextCallbacks]_vars

-----------------------------------------------------------------------------
(* The main loop beside the injection thread, one call of the bus client or *)
(* one critical section a step.  Each pass of the main loop captures one    *)
(* report of the controller in slot 0 and hands its translation to          *)
(* sendInput.  m_injectionQueueMutex is held by the injection thread from   *)
(* the first to the last state of a pass (workerPc > 0); the sends take     *)
(* m_devicesMutex one at a time, so that the sends of the two threads       *)
(* interleave.                                                              *)

MaxTick == 3

ThreadsOnly ==
    UNCHANGED << Orchestrator, buttonVars, captureVars, socdVars, translateResult,
                 stickVars, hidVars, rumbleVars, lockVars, mainVars, loopVars >>

\* the mutexes the injection thread holds between two of its steps: it holds
\* m_injectionQueueMutex from the first send of a pass to the clear
WorkerHolds == IF workerPc >= 1 THEN {"m_injectionQueueMutex"} ELSE {}

\* the main thread is between two calls or between the failed send and the
\* push_back of sendInput: every lock_guard of the call before has ended
MainHolds == {}

\* std::lock_guard on mutex by a thread that holds the mutexes of held
lock_guard(held, mutex) == nested \cup {<< h, mutex >> : h \in held}

\* the update of the target of a translated state, by either thread
sendToTarget(st, state, faults) ==
    IF state.targetType = TARGET_XINPUT
    THEN sendToVirtualXInputDevice(st, state.sourceUserId, faults)
    ELSE sendToVirtualDInputDevice(st, state.sourceUserId, faults)

\* the updates so far, and the one of state by the thread named by when sent
\* is true
submit(state, sent, by) ==
    IF sent
    THEN Append(submitted, [targetType |-> state.targetType, timestamp |-> state.timestamp,
                            by |-> by])
    ELSE submitted

\* the attempts so far and one more for the report of the state
attempt(state) ==
    [t \in DOMAIN attempts \cup {state.timestamp} |->
        IF t = state.timestamp
        THEN (IF t \in DOMAIN attempts THEN attempts[t] ELSE 0) + 1
        ELSE attempts[t]]

\* a loop over the queue that leaves out every other report
everyOther(worker) == worker + 2

\* the range-based for loop of the injection thread goes on with the next
\* report of the queue
nextQueued(worker) == worker + 1

\* std::lock_guard(m_injectionQueueMutex) in sendInput goes on once the
\* injection thread does not hold the mutex
lockable(worker) == worker < 1

\* VirtualDeviceEmulator::initialize: a successful one starts the injection
\* thread
InitializeAndStart ==
    /\ unsent = << >>
    /\ shutdownPc = "idle"
    /\ ~m_initialized
    /\ \E ok \in BOOLEAN :
          /\ Machine([St EXCEPT !.m_initialized = ok], "none")
          /\ m_running' = ok
          /\ clientFreed' = IF ok THEN FALSE ELSE clientFreed
          /\ workerPc' = IF ok THEN -1 ELSE workerPc
    /\ UNCHANGED << shutdownPc, unsent, tick, submitted >>
    /\ UNCHANGED << nested, attempts >>
    /\ ThreadsOnly

\* the main loop's processDevices creates a target for the controller
MainCreateVirtualDevice ==
    /\ unsent = << >>
    /\ shutdownPc = "idle"
    /\ Len(m_virtualDevices) < MaxTargets
    /\ \E type \in TargetTypes, faults \in FaultSets :
          Machine(createVirtualDevice(St, type, 0, faults).st, "emulator")
    /\ UNCHANGED threadVars
    /\ nested' = lock_guard(MainHolds, "m_devicesMutex")
    /\ UNCHANGED attempts
    /\ ThreadsOnly

\* the dashboard switches the XInput to DInput mapping
MainSetMapping ==
    /\ unsent = << >>
    /\ Machine([St EXCEPT !.m_xinputToDInputEnabled = ~m_xinputToDInputEnabled], "none")
    /\ UNCHANGED threadVars
    /\ UNCHANGED << nested, attempts >>
    /\ ThreadsOnly

\* VirtualDeviceEmulator::sendInput with the translation of the report
\* captured in this pass, up to the answer of the immediate send
MainSendInput ==
    /\ unsent = << >>
    /\ shutdownPc = "idle"
    /\ m_initialized
    /\ tick < MaxTick
    /\ tick' = tick + 1
    /\ \E faults \in UpdateFaultSets :
          \E state \in {convertXInputToStandard(St, [userId |-> 0, timestamp |-> tick + 1])} :
              \E r \in {sendToTarget(St, state, faults)} :
                  /\ Machine(r.st, "sendInput")
                  /\ submitted' = submit(state, r.ret, "sendInput")
                  /\ unsent' = IF r.ret THEN << >> ELSE << state >>
    /\ UNCHANGED << m_running, clientFreed, shutdownPc, workerPc >>
    /\ nested' = lock_guard(MainHolds, "m_devicesMutex")
    /\ UNCHANGED attempts
    /\ ThreadsOnly

\* sendInput takes m_injectionQueueMutex and pushes the state whose
\* immediate send failed
MainQueues ==
    /\ unsent # << >>
    /\ lockable(workerPc)
    /\ Len(m_injectionQueue) < MaxQueue
    /\ Machine([St EXCEPT !.m_injectionQueue = Append(@, unsent[1])], "sendInput")
    /\ unsent' = << >>
    /\ UNCHANGED << m_running, clientFreed, shutdownPc, workerPc, tick, submitted >>
    /\ nested' = lock_guard(MainHolds, "m_injectionQueueMutex")
    /\ UNCHANGED attempts
    /\ ThreadsOnly

\* the injection thread reads m_running at the head of its loop: it enters
\* the body or ends
WorkerTestsRunning ==
    /\ workerPc = -1
    /\ workerPc' = IF m_running THEN 0 ELSE -2
    /\ Machine(St, "inject")
    /\ UNCHANGED << m_running, clientFreed, shutdownPc, unsent, tick, submitted >>
    /\ UNCHANGED << nested, attempts >>
    /\ ThreadsOnly

\* the injection thread takes m_injectionQueueMutex: with an empty queue it
\* leaves the block, sleeps and is back at the head of the loop
WorkerLocks ==
    /\ workerPc = 0
    /\ workerPc' = IF m_injectionQueue # << >> THEN 1 ELSE -1
    /\ Machine(St, "inject")
    /\ UNCHANGED << m_running, clientFreed, shutdownPc, unsent, tick, submitted >>
    /\ nested' = lock_guard(WorkerHolds, "m_injectionQueueMutex")
    /\ UNCHANGED attempts
    /\ ThreadsOnly

\* the injection thread sends the next state of the queue
WorkerSends ==
    /\ workerPc >= 1
    /\ workerPc <= Len(m_injectionQueue)
    /\ \E faults \in UpdateFaultSets :
          \E state \in {m_injectionQueue[workerPc]} :
              \E r \in {sendToTarget(St, state, faults)} :
                  /\ Machine(r.st, "inject")
                  /\ submitted' = submit(state, r.ret, "inject")
    /\ workerPc' = nextQueued(workerPc)
    /\ UNCHANGED << m_running, clientFreed, shutdownPc, unsent, tick >>
    /\ nested' = lock_guard(WorkerHolds, "m_devicesMutex")
    /\ attempts' = attempt(m_injectionQueue[workerPc])
    /\ ThreadsOnly

\* the injection thread clears the queue and leaves the locked block
WorkerClears ==
    /\ workerPc >= 1
    /\ workerPc > Len(m_injectionQueue)
    /\ Machine([St EXCEPT !.m_injectionQueue = << >>], "inject")
    /\ workerPc' = -1
    /\ UNCHANGED << m_running, clientFreed, shutdownPc, unsent, tick, submitted >>
    /\ UNCHANGED << nested, attempts >>
    /\ ThreadsOnly

\* shutdown without the join: it goes on whatever the thread is doing
joinSkipped(worker) == TRUE

\* m_injectionThread->join() returns once the injection thread has ended
join(worker) == worker = -2

\* VirtualDeviceEmulator::shutdown, up to the join: nothing happens when the
\* emulator is not initialized, otherwise m_running becomes false
ShutdownStops ==
    /\ unsent = << >>
    /\ shutdownPc = "idle"
    /\ Machine(St, "shutdown")
    /\ IF ~m_initialized
       THEN UNCHANGED << m_running, shutdownPc >>
       ELSE m_running' = FALSE /\ shutdownPc' = "join"
    /\ UNCHANGED << clientFreed, workerPc, unsent, tick, submitted >>
    /\ UNCHANGED << nested, attempts >>
    /\ ThreadsOnly

\* shutdown joins the injection thread, then takes m_devicesMutex, destroys
\* every target and clears the list
ShutdownDestroys ==
    /\ shutdownPc = "join"
    /\ join(workerPc)
    /\ Machine([St EXCEPT !.m_virtualDevices = << >>], "shutdown")
    /\ shutdownPc' = "free"
    /\ UNCHANGED << m_running, clientFreed, workerPc, unsent, tick, submitted >>
    /\ nested' = lock_guard(MainHolds, "m_devicesMutex")
    /\ UNCHANGED attempts
    /\ ThreadsOnly

\* shutdown disconnects and frees the client of the bus and ends
ShutdownFrees ==
    /\ shutdownPc = "free"
    /\ Machine(shutdown(St), "shutdown")
    /\ clientFreed' = TRUE
    /\ shutdownPc' = "idle"
    /\ UNCHANGED << m_running, workerPc, unsent, tick, submitted >>
    /\ UNCHANGED << nested, attempts >>
    /\ ThreadsOnly

NextThreads ==
    \/ InitializeAndStart
    \/ MainCreateVirtualDevice
    \/ MainSetMapping
    \/ MainSendInput
    \/ MainQueues
    \/ WorkerTestsRunning
    \/ WorkerLocks
    \/ WorkerSends
    \/ WorkerClears
    \/ ShutdownStops
    \/ ShutdownDestroys
    \/ ShutdownFrees

SpecThreads == Init /\ [][NextThreads]_vars

\* the injection thread is scheduled whenever it has a step to take
WorkerThread ==
    \/ WorkerTestsRunning
    \/ WorkerLocks
    \/ WorkerSends
    \/ WorkerClears

SpecThreadsLive == Init /\ [][NextThreads]_vars /\ WF_vars(WorkerThread)

-----------------------------------------------------------------------------
(* TranslationLayer::translate on the button word.  A button word is the    *)
(* set of its bits that are set.                                            *)

Buttons == {"DPAD_LEFT", "DPAD_RIGHT"}
SourceUserIds == {-1, 0}
DebounceIntervals == {1, 4, 10}

\* TimingUtils::microsecondsToCounter
microsecondsToCounter(microseconds) == (microseconds * Frequency) \div 1000000

\* the body shared by the three cases of the switch in applySOCDControl:
\* leftPressed .. downPressed are read from the word before any bit is cleared
neutralize(wButtons) ==
    LET leftPressed == "DPAD_LEFT" \in wButtons
        rightPressed == "DPAD_RIGHT" \in wButtons
        upPressed == "DPAD_UP" \in wButtons
        downPressed == "DPAD_DOWN" \in wButtons
        horizontal == IF leftPressed /\ rightPressed
                      THEN wButtons \ {"DPAD_LEFT", "DPAD_RIGHT"} ELSE wButtons
    IN IF upPressed /\ downPressed
       THEN horizontal \ {"DPAD_UP", "DPAD_DOWN"} ELSE horizontal

\* applySOCDControl with the first pressed direction of a pair kept
applySOCDControlFirstWin(method, wButtons) ==
    IF method = 1 THEN wButtons \ {"DPAD_RIGHT", "DPAD_DOWN"} ELSE neutralize(wButtons)

\* applySOCDControl clearing the horizontal pair only
applySOCDControlHorizontal(method, wButtons) ==
    IF {"DPAD_LEFT", "DPAD_RIGHT"} \subseteq wButtons
    THEN wButtons \ {"DPAD_LEFT", "DPAD_RIGHT"} ELSE wButtons

\* TranslationLayer::applySOCDControl: switch (m_socdMethod)
applySOCDControl(method, wButtons) ==
    CASE method = 0 -> neutralize(wButtons)
      [] method = 1 -> neutralize(wButtons)
      [] OTHER -> neutralize(wButtons)

\* TranslationLayer::applyDebouncing: the answer, the out-parameter and the
\* array of timestamps after the call
applyDebouncing(userId, currentButtons, cleanedButtons) ==
    IF userId < 0 \/ userId >= MAX_CONTROLLERS
    THEN [ret |-> TRUE, cleanedButtons |-> currentButtons,
          m_lastButtonChangeTime |-> m_lastButtonChangeTime]
    ELSE LET currentTime == performanceCounter
             timeThreshold == microsecondsToCounter(m_debounceIntervalMs * 1000)
         IN IF (currentTime - m_lastButtonChangeTime[userId]) < timeThreshold
            THEN [ret |-> FALSE, cleanedButtons |-> cleanedButtons,
                  m_lastButtonChangeTime |-> m_lastButtonChangeTime]
            ELSE [ret |-> TRUE, cleanedButtons |-> currentButtons,
                  m_lastButtonChangeTime |->
                      [m_lastButtonChangeTime EXCEPT ![userId] = currentTime]]

\* time passes
CounterAdvances ==
    /\ performanceCounter < MaxCounter
    /\ performanceCounter' = performanceCounter + 1
    /\ translated' = NoTranslation
    /\ UNCHANGED << m_socdCleaningEnabled, m_debouncingEnabled, m_debounceIntervalMs,
                    m_lastButtonChangeTime, acceptedButtons >>
    /\ UNCHANGED << deviceVars, captureVars, conversionVars >>

\* TranslationLayer::setSOCDCleaningEnabled
SetSOCDCleaningEnabled ==
    /\ m_socdCleaningEnabled' = ~m_socdCleaningEnabled
    /\ translated' = NoTranslation
    /\ UNCHANGED << m_debouncingEnabled, m_debounceIntervalMs, m_lastButtonChangeTime,
                    performanceCounter, acceptedButtons >>
    /\ UNCHANGED << deviceVars, captureVars, conversionVars >>

\* TranslationLayer::setDebouncingEnabled
SetDebouncingEnabled ==
    /\ m_debouncingEnabled' = ~m_debouncingEnabled
    /\ translated' = NoTranslation
    /\ UNCHANGED << m_socdCleaningEnabled, m_debounceIntervalMs, m_lastButtonChangeTime,
                    performanceCounter, acceptedButtons >>
    /\ UNCHANGED << deviceVars, captureVars, conversionVars >>

\* TranslationLayer::setDebounceIntervalMs
SetDebounceIntervalMs ==
    /\ m_debounceIntervalMs' \in DebounceIntervals \ {m_debounceIntervalMs}
    /\ translated' = NoTranslation
    /\ UNCHANGED << m_socdCleaningEnabled, m_debouncingEnabled, m_lastButtonChangeTime,
                    performanceCounter, acceptedButtons >>
    /\ UNCHANGED << deviceVars, captureVars, conversionVars >>

\* TranslationLayer::translate on the state of one source whose button word
\* is wButtons: SOCD cleaning, then debouncing
Translate ==
    \E userId \in SourceUserIds, wButtons \in SUBSET Buttons :
        LET cleaned == IF m_socdCleaningEnabled
                       THEN applySOCDControl(m_socdMethod, wButtons) ELSE wButtons
            debounce == applyDebouncing(userId, cleaned, cleaned)
            out == IF m_debouncingEnabled /\ debounce.ret
                   THEN debounce.cleanedButtons ELSE cleaned
            inRange == userId >= 0 /\ userId < MAX_CONTROLLERS
            accepted == inRange /\ (~m_debouncingEnabled \/ debounce.ret)
        IN /\ m_lastButtonChangeTime' = IF m_debouncingEnabled
                                        THEN debounce.m_lastButtonChangeTime
                                        ELSE m_lastButtonChangeTime
           /\ acceptedButtons' = IF accepted THEN MapPut(acceptedButtons, userId, out)
                                             ELSE acceptedButtons
           /\ translated' = [userId |-> userId,
                             debouncing |-> m_debouncingEnabled,
                             wButtons |-> out,
                             newButtons |-> cleaned,
                             hasPrevious |-> MapHas(acceptedButtons, userId),
                             previousButtons |-> IF MapHas(acceptedButtons, userId)
                                                 THEN acceptedButtons[userId] ELSE {},
                             inInterval |->
                                 /\ inRange
                                 /\ (performanceCounter - m_lastButtonChangeTime[userId])
                                        < microsecondsToCounter(m_debounceIntervalMs * 1000),
                             currentTime |-> performanceCounter]
           /\ UNCHANGED << m_socdCleaningEnabled, m_debouncingEnabled, m_debounceIntervalMs,
                           performanceCounter >>
           /\ UNCHANGED << deviceVars, captureVars, conversionVars >>

NextDebounce ==
    \/ CounterAdvances
    \/ SetSOCDCleaningEnabled
    \/ SetDebouncingEnabled
    \/ SetDebounceIntervalMs
    \/ Translate

SpecDebounce == Init /\ [][NextDebounce]_vars

-----------------------------------------------------------------------------
(* TranslationLayer::applySOCDControl on every button word over PadButtons,  *)
(* under every method the setter accepts.                                   *)

PadButtons == {"DPAD_UP", "DPAD_DOWN", "DPAD_LEFT", "DPAD_RIGHT", "START", "A"}
SocdMethods == {-1, 0, 1, 2, 3}

ConversionOnly ==
    UNCHANGED << deviceVars, buttonVars, captureVars, translateResult, stickVars, hidVars,
                 rumbleVars,
                    lockVars, threadVars, mainVars, programVars, loopVars >>

InitSOCD ==
    /\ InitMachine
    /\ inputStates = << >>
    /\ gamepad \in {[NoGamepad EXCEPT !.wButtons = wButtons] : wButtons \in SUBSET PadButtons}
    /\ socd = NoSOCD
    /\ translateResult = NotTranslated
    /\ hidState = NoHidState
    /\ converted = NotConverted

\* TranslationLayer::setSOCDMethod
SetSOCDMethod ==
    \E method \in SocdMethods \ {m_socdMethod} :
        /\ m_socdMethod' = method
        /\ socd' = NoSOCD
        /\ UNCHANGED gamepad
        /\ ConversionOnly

\* TranslationLayer::applySOCDControl(gamepad)
ApplySOCDControl ==
    /\ gamepad' = [gamepad EXCEPT !.wButtons = applySOCDControl(m_socdMethod, @)]
    /\ socd' = [method |-> m_socdMethod,
                before |-> gamepad.wButtons,
                after |-> applySOCDControl(m_socdMethod, gamepad.wButtons),
                again |-> socd.applied,
                applied |-> TRUE]
    /\ UNCHANGED m_socdMethod
    /\ ConversionOnly

NextSOCD ==
    \/ SetSOCDMethod
    \/ ApplySOCDControl

SpecSOCD == InitSOCD /\ [][NextSOCD]_vars

-----------------------------------------------------------------------------
(* TranslationLayer::translate on every snapshot of up to MaxSnapshot        *)
(* controller states.  The capture layer stamps the states in order, so the  *)
(* timestamp tells which state an output was made from.                      *)

MaxSnapshot == 2
PacketNumbers == {0, 1}
UserIds == {-1, 0, 1}
DevicePathsOfStates == {"", "\\\\?\\hid"}

ControllerState(userId, dwPacketNumber, devicePath, timestamp) ==
    [userId |-> userId, isConnected |-> TRUE, deviceInstanceId |-> "",
     dwPacketNumber |-> dwPacketNumber, devicePath |-> devicePath, timestamp |-> timestamp]

SnapshotsToTranslate ==
    UNION {{[i \in 1..n |-> ControllerState(userId[i], packet[i], path[i], i)] :
               userId \in [1..n -> UserIds], packet \in [1..n -> PacketNumbers],
               path \in [1..n -> DevicePathsOfStates]} : n \in 0..MaxSnapshot}

InitTranslate ==
    /\ InitMachine
    /\ inputStates \in SnapshotsToTranslate
    /\ InitConversion

\* TranslationLayer::setXInputToDInputMapping, setDInputToXInputMapping
SetMapping ==
    \E xinputToDInput, dinputToXInput \in BOOLEAN :
        /\ << xinputToDInput, dinputToXInput >> # << m_xinputToDInputEnabled, m_dinputToXInputEnabled >>
        /\ m_xinputToDInputEnabled' = xinputToDInput
        /\ m_dinputToXInputEnabled' = dinputToXInput
        /\ translateResult' = NotTranslated
        /\ UNCHANGED << m_initialized, m_virtualDevices, m_hidHideEnabled, m_hidHideController,
                        m_injectionQueue, m_connected, hidHideFailed, driverBlacklist,
                        driverWhitelist, driverActive, driverInverse,
                        m_hiddenDeviceIds, m_failedToHideDeviceIds,
                        m_activeVirtualXInputDevices, m_activeVirtualDInputDevices,
                        devicesHiddenThisSession, inputStates, translationEnabled,
                        hidHideEnabled, pc, lastOp, calls, returnedIds, addedToBlacklist,
                        driverFaulted >>
        /\ UNCHANGED << buttonVars, captureVars, socdVars, stickVars, hidVars, rumbleVars,
                    lockVars, threadVars, mainVars, programVars, loopVars >>

\* TranslationLayer::translate(inputStates)
TranslateSnapshot ==
    /\ translateResult' = [done |-> TRUE, out |-> translate(St, inputStates)]
    /\ UNCHANGED << deviceVars, buttonVars, captureVars, socdVars, stickVars, hidVars,
                    rumbleVars,
                    lockVars, threadVars, mainVars, programVars, loopVars >>

NextTranslate ==
    \/ SetMapping
    \/ TranslateSnapshot

SpecTranslate == InitTranslate /\ [][NextTranslate]_vars

-----------------------------------------------------------------------------
(* TranslationLayer::translate on the state of one HID source: the source    *)
(* named "Wireless Controller" with every 8-bit value on one stick axis, a   *)
(* source without profile with one axis at the ends and about the middle of  *)
(* its declared range, and a source without profile and without value caps   *)
(* whose left stick rests near 128.                                         *)

StickUsages == {USAGE_X, USAGE_Y, USAGE_Z, USAGE_RZ}
AxisUsages == StickUsages \cup {USAGE_RX, USAGE_RY}
LogicalRanges == {<< 0, 255 >>, << 0, 1023 >>, << 0, 65535 >>, << -128, 127 >>}
RestingValues == {128, 143, 151}

\* HIDP_VALUE_CAPS of one axis
ValueCap(usage, logicalMin, logicalMax) ==
    [UsagePage |-> 1, UsageMin |-> usage, LogicalMin |-> logicalMin, LogicalMax |-> logicalMax]

\* the values about the middle of a range and its ends
ValuesOf(logicalMin, logicalMax) ==
    {logicalMin, logicalMax, TruncDiv(logicalMin + logicalMax, 2),
     TruncDiv(logicalMin + logicalMax, 2) + 1}

HidStates ==
    {[productName |-> "Wireless Controller", m_activeButtons |-> buttons,
      m_hidValues |-> (usage :> value), valueCaps |-> << >>] :
         usage \in StickUsages, value \in 0..255, buttons \in {{}, {2, 7}}}
    \cup UNION {{[productName |-> "Test Controller", m_activeButtons |-> {1},
                  m_hidValues |-> (usage :> value),
                  valueCaps |-> << ValueCap(usage, range[1], range[2]) >>] :
                     usage \in AxisUsages, value \in ValuesOf(range[1], range[2])} :
                 range \in LogicalRanges}
    \cup {[productName |-> "Test Controller", m_activeButtons |-> {},
           m_hidValues |-> (USAGE_X :> valueX) @@ (USAGE_Y :> valueY), valueCaps |-> << >>] :
              valueX \in RestingValues, valueY \in RestingValues}

InitHID ==
    /\ InitMachine
    /\ inputStates = << >>
    /\ gamepad = NoGamepad
    /\ socd = NoSOCD
    /\ translateResult = NotTranslated
    /\ hidState \in HidStates
    /\ converted = NotConverted

\* TranslationLayer::setStickDeadzoneEnabled
SetStickDeadzoneEnabled ==
    /\ m_stickDeadzoneEnabled' = ~m_stickDeadzoneEnabled
    /\ converted' = NotConverted
    /\ UNCHANGED << m_leftStickDeadzone, m_rightStickDeadzone, m_leftStickAntiDeadzone,
                    m_rightStickAntiDeadzone, hidState >>
    /\ UNCHANGED << deviceVars, buttonVars, captureVars, socdVars, translateResult,
                    rumbleVars,
                    lockVars, threadVars, mainVars, programVars, loopVars >>

\* TranslationLayer::translate on the state of the HID source: conversion,
\* SOCD cleaning, debouncing (the sourceUserId of a HID source is -1, so the
\* word is taken as it is) and the stick deadzone
TranslateHID ==
    LET state == convertHIDGamepad(hidState)
        cleaned == IF m_socdCleaningEnabled
                   THEN [state EXCEPT !.wButtons = applySOCDControl(m_socdMethod, @)]
                   ELSE state
        debounce == applyDebouncing(-1, cleaned.wButtons, cleaned.wButtons)
        debounced == IF m_debouncingEnabled /\ debounce.ret
                     THEN [cleaned EXCEPT !.wButtons = debounce.cleanedButtons]
                     ELSE cleaned
    IN /\ gamepad' = IF m_stickDeadzoneEnabled
                     THEN applyStickDeadzones(debounced, m_leftStickDeadzone,
                                              m_leftStickAntiDeadzone, m_rightStickDeadzone,
                                              m_rightStickAntiDeadzone)
                     ELSE debounced
       /\ converted' = [done |-> TRUE, gamepad |-> state]
       /\ UNCHANGED << m_socdMethod, socd, stickVars, hidState >>
       /\ UNCHANGED << deviceVars, buttonVars, captureVars, translateResult, rumbleVars,
                    lockVars, threadVars, mainVars, programVars, loopVars >>

NextHID ==
    \/ SetStickDeadzoneEnabled
    \/ TranslateHID

SpecHID == InitHID /\ [][NextHID]_vars

-----------------------------------------------------------------------------
(* InputCapture (src/core/input_capture.cpp).  A device instance id such as *)
(* HID\VID_045E&PID_028E&IG_00\7&1 is kept as its three parts: the text     *)
(* before the backslash without the &IG_ suffix, the IG_ suffix, the text   *)
(* after the backslash.                                                     *)

InstanceId(vidpid, ig, serial) == [vidpid |-> vidpid, ig |-> ig, serial |-> serial]
EmptyId == InstanceId("", "", "")

\* the device interfaces an enumeration can report: two interfaces of one
\* XInput pad, an XInput pad of another make, a generic HID gamepad, a HID
\* gamepad whose instance id cannot be read, and two targets of the ViGEm bus
\* (one known by its instance id, one by its UINumber property)
Interface(id, uiNumber) == [id |-> id, uiNumber |-> uiNumber, gamepad |-> TRUE]

Interfaces ==
    { Interface(InstanceId("VID_045E&PID_028E", "IG_00", "1"), FALSE),
      Interface(InstanceId("VID_045E&PID_028E", "IG_01", "2"), FALSE),
      Interface(InstanceId("VID_046D&PID_C21D", "IG_00", "1"), FALSE),
      Interface(InstanceId("VID_0079&PID_0006", "", "1"), FALSE),
      Interface(EmptyId, FALSE),
      Interface(InstanceId("VID_044F&PID_B326", "", "1"), FALSE),
      Interface(InstanceId("VID_1234&PID_0001", "", "1"), TRUE) }

Enumerations ==
    UNION {{e \in [1..n -> Interfaces] : \A i, j \in 1..n : e[i] = e[j] => i = j}
           : n \in 0..MaxEnumerated}

\* the filter for the targets of the ViGEm bus: the instance id carries one
\* of the two patterns, or the device has the UINumber property
isVirtualViGEm(interface) ==
    \/ interface.id.vidpid \in {"VID_044F&PID_B326", "VID_054C&PID_05C4"}
    \/ interface.uiNumber

\* the text before the backslash, without the &IG_ suffix
BaseDeviceId(instanceId) == instanceId.vidpid

\* an enumeration that does not look for the instance id in the list
matchNothing(states, actualInstanceId) == 0

\* the first loop of initializeHID over the list: the entry that carries the
\* instance id, 0 when there is none
matchByInstanceId(states, actualInstanceId) ==
    FirstIndex(states, LAMBDA state : /\ state.deviceInstanceId # EmptyId
                                      /\ state.deviceInstanceId = actualInstanceId)

\* an enumeration that does not look for the other interfaces of the device
neverAssigned(states, baseDeviceId) == FALSE

\* "alreadyAssigned": a slot holds an interface of the same physical device
alreadyAssigned(states, baseDeviceId) ==
    \E i \in 1..Len(states) :
        /\ states[i].userId >= 0
        /\ states[i].deviceInstanceId # EmptyId
        /\ BaseDeviceId(states[i].deviceInstanceId) # ""
        /\ BaseDeviceId(states[i].deviceInstanceId) = baseDeviceId

\* the body of the loop of initializeHID for one interface that is no ViGEm
\* target.  relock is what locking m_statesMutex does while the thread holds
\* it already: the call returns, or the thread waits for ever.
enumerateInterface(cap, interface, openOk, relock) ==
    LET states == cap.states
        id == interface.id
        matched == matchByInstanceId(states, id)
        isXInput == id.ig # ""
        freeSlot == FirstIndex(states, LAMBDA state : /\ state.userId >= 0
                                                      /\ state.deviceInstanceId = EmptyId)
        asHid == FirstIndex(states, LAMBDA state : state.userId < 0 /\ state.deviceInstanceId = id)
        alreadyExists == \E i \in 1..Len(states) :
                             states[i].deviceInstanceId = id /\ id # EmptyId
        newState == [userId |-> -1, isConnected |-> TRUE, deviceInstanceId |-> id,
                     hidHandle |-> TRUE, isReadPending |-> FALSE,
                     lastError |-> "ERROR_SUCCESS"]
    IN IF matched # 0
       THEN [cap EXCEPT !.states[matched].isConnected = TRUE]
       ELSE IF isXInput /\ BaseDeviceId(id) = "" THEN cap
       ELSE IF isXInput /\ alreadyAssigned(states, BaseDeviceId(id)) THEN cap
       ELSE IF isXInput /\ freeSlot # 0
            THEN [cap EXCEPT !.states[freeSlot].deviceInstanceId = id,
                             !.states[freeSlot].isConnected = TRUE]
       ELSE IF asHid # 0
            THEN [cap EXCEPT !.states[asHid].isConnected = TRUE]
       ELSE IF ~openOk THEN cap
       ELSE IF ~interface.gamepad THEN cap
       ELSE IF relock = "deadlock" THEN [cap EXCEPT !.hung = TRUE]
       ELSE IF alreadyExists THEN cap
       ELSE [cap EXCEPT !.states = Append(@, newState)]

RECURSIVE initializeHIDFrom(_, _, _, _, _)
initializeHIDFrom(cap, enumeration, i, openOk, relock) ==
    IF i > Len(enumeration) \/ cap.hung THEN cap
    ELSE IF isVirtualViGEm(enumeration[i])
         THEN initializeHIDFrom(cap, enumeration, i + 1, openOk, relock)
    ELSE Then(enumerateInterface(cap, enumeration[i], openOk, relock),
              LAMBDA next : initializeHIDFrom(next, enumeration, i + 1, openOk, relock))

\* InputCapture::initializeHID
initializeHID(states, enumeration, openOk, relock) ==
    initializeHIDFrom([states |-> states, hung |-> FALSE], enumeration, 1, openOk, relock)

\* what XInputGetState answers: ERROR_SUCCESS, ERROR_DEVICE_NOT_CONNECTED, or
\* any other error code
XInputResults == {"ERROR_SUCCESS", "ERROR_DEVICE_NOT_CONNECTED", "ERROR_OTHER"}

\* what XInputGetState answers for each slot.  InputCapture::initialize
\* gives up when slot 0 answers an error other than
\* ERROR_DEVICE_NOT_CONNECTED.
SlotResults == [0..(CaptureSlots - 1) -> XInputResults]
InitialSlotResults ==
    {result \in SlotResults : result[0] \in {"ERROR_SUCCESS", "ERROR_DEVICE_NOT_CONNECTED"}}

\* InputCapture::initializeXInput for count slots
initializeXInputSlots(result, count) ==
    [i \in 1..count |->
        [userId |-> i - 1, isConnected |-> FALSE, deviceInstanceId |-> EmptyId,
         hidHandle |-> FALSE, isReadPending |-> FALSE, lastError |-> result[i - 1]]]

\* InputCapture::initializeXInput
initializeXInput(result) == initializeXInputSlots(result, CaptureSlots)

\* pollXInputControllers with a slot marked connected whenever its poll
\* succeeds, matched or not
pollXInputControllersUnmatched(states, result) ==
    [i \in 1..Len(states) |->
        IF i > CaptureSlots THEN states[i]
        ELSE IF result[i - 1] = "ERROR_SUCCESS"
             THEN [states[i] EXCEPT !.isConnected = TRUE, !.lastError = result[i - 1]]
             ELSE [states[i] EXCEPT !.isConnected = FALSE, !.deviceInstanceId = EmptyId,
                                    !.lastError = result[i - 1]]]

\* InputCapture::pollXInputControllers over the first count entries; result
\* is what XInputGetState answers for each slot
pollXInputSlots(states, result, count) ==
    [i \in 1..Len(states) |->
        IF i > count THEN states[i]
        ELSE IF states[i].deviceInstanceId # EmptyId
             THEN IF result[i - 1] = "ERROR_SUCCESS"
                  THEN [states[i] EXCEPT !.isConnected = TRUE, !.lastError = result[i - 1]]
                  ELSE [states[i] EXCEPT !.isConnected = FALSE, !.deviceInstanceId = EmptyId,
                                         !.lastError = result[i - 1]]
             ELSE [states[i] EXCEPT !.isConnected = FALSE,
                                    !.lastError = "ERROR_DEVICE_NOT_CONNECTED"]]

\* InputCapture::pollXInputControllers
pollXInputControllers(states, result) == pollXInputSlots(states, result, CaptureSlots)

\* what ReadFile or GetOverlappedResult answers: success, or the error
\* ("pending": ERROR_IO_PENDING from ReadFile, ERROR_IO_INCOMPLETE from
\* GetOverlappedResult)
ReadResults == {"success", "pending", "not_connected", "bad_command", "other"}

\* the error code of a failed read
ReadError(result) ==
    IF result = "not_connected" THEN "ERROR_DEVICE_NOT_CONNECTED"
    ELSE IF result = "bad_command" THEN "ERROR_BAD_COMMAND"
    ELSE "ERROR_OTHER"

\* InputCapture::pollHIDControllers; result is what ReadFile or
\* GetOverlappedResult answers
pollHIDControllers(states, result) ==
    [i \in 1..Len(states) |->
        IF ~(states[i].hidHandle /\ states[i].userId < 0) THEN states[i]
        ELSE IF ~states[i].isReadPending
             THEN IF result = "success" THEN [states[i] EXCEPT !.isConnected = TRUE]
                  ELSE IF result = "pending"
                       THEN [states[i] EXCEPT !.isReadPending = TRUE]
                  ELSE IF result = "not_connected"
                       THEN [states[i] EXCEPT !.isConnected = FALSE,
                                              !.lastError = ReadError(result)]
                  ELSE states[i]
             ELSE IF result = "success"
                  THEN [states[i] EXCEPT !.isReadPending = FALSE, !.isConnected = TRUE]
                  ELSE IF result = "pending" THEN states[i]
                  ELSE IF result \in {"not_connected", "bad_command"}
                       THEN [states[i] EXCEPT !.isReadPending = FALSE, !.isConnected = FALSE,
                                              !.lastError = ReadError(result)]
                  ELSE [states[i] EXCEPT !.isReadPending = FALSE,
                                         !.lastError = ReadError(result)]]

\* the ids of an enumeration, and those of them an entry of the list carries
Enumerated(states, enumeration) ==
    LET ids == {enumeration[i].id : i \in 1..Len(enumeration)} \ {EmptyId}
    IN [ids |-> ids,
        known |-> {id \in ids : \E i \in 1..Len(states) : states[i].deviceInstanceId = id}]

\* the rest of a capture step: nothing else changes
CaptureOnly == UNCHANGED << deviceVars, buttonVars, conversionVars >>

\* InputCapture::initialize
CaptureInitialize ==
    /\ m_controllerStates = << >>
    /\ ~captureHung
    /\ \E enumeration \in Enumerations, openOk \in BOOLEAN, relock \in {"returns", "deadlock"},
          result \in InitialSlotResults :
          \E cap \in {initializeHID(initializeXInput(result), enumeration, openOk, relock)} :
              /\ m_controllerStates' = cap.states
              /\ captureHung' = cap.hung
              /\ enumerated' = Enumerated(initializeXInput(result), enumeration)
    /\ CaptureOnly

\* InputCapture::refreshDevices
RefreshDevices ==
    /\ m_controllerStates # << >>
    /\ ~captureHung
    /\ \E enumeration \in Enumerations, openOk \in BOOLEAN, relock \in {"returns", "deadlock"} :
          \E cap \in {initializeHID(m_controllerStates, enumeration, openOk, relock)} :
              /\ m_controllerStates' = cap.states
              /\ captureHung' = cap.hung
              /\ enumerated' = Enumerated(m_controllerStates, enumeration)
    /\ CaptureOnly

\* the answers of a device that is there or is not: no other error
PresenceResults ==
    [0..(CaptureSlots - 1) -> {"ERROR_SUCCESS", "ERROR_DEVICE_NOT_CONNECTED"}]
PresenceReadResults == {"success", "pending", "not_connected"}

\* InputCapture::update, the devices answering or gone
Update ==
    /\ m_controllerStates # << >>
    /\ ~captureHung
    /\ \E polled \in PresenceResults, result \in PresenceReadResults :
          m_controllerStates' =
              pollHIDControllers(pollXInputControllers(m_controllerStates, polled), result)
    /\ enumerated' = [ids |-> {}, known |-> {}]
    /\ UNCHANGED captureHung
    /\ CaptureOnly

\* Enumeration in depth: every interface, the polls answering success or
\* device-not-connected.
NextCapture ==
    \/ CaptureInitialize
    \/ RefreshDevices
    \/ Update

SpecCapture == Init /\ [][NextCapture]_vars

\* the enumerations of one XInput pad and one generic HID gamepad
PolledInterfaces ==
    { Interface(InstanceId("VID_045E&PID_028E", "IG_00", "1"), FALSE),
      Interface(InstanceId("VID_0079&PID_0006", "", "1"), FALSE) }
PolledEnumerations ==
    {e \in Enumerations : \A i \in 1..Len(e) : e[i] \in PolledInterfaces}

\* InputCapture::initialize with the two devices
InitializePolled ==
    /\ m_controllerStates = << >>
    /\ ~captureHung
    /\ \E enumeration \in PolledEnumerations, openOk \in BOOLEAN,
          relock \in {"returns", "deadlock"}, result \in InitialSlotResults :
          \E cap \in {initializeHID(initializeXInput(result), enumeration, openOk, relock)} :
              /\ m_controllerStates' = cap.states
              /\ captureHung' = cap.hung
              /\ enumerated' = Enumerated(initializeXInput(result), enumeration)
    /\ CaptureOnly

\* InputCapture::refreshDevices with the two devices
RefreshPolled ==
    /\ m_controllerStates # << >>
    /\ ~captureHung
    /\ \E enumeration \in PolledEnumerations, openOk \in BOOLEAN,
          relock \in {"returns", "deadlock"} :
          \E cap \in {initializeHID(m_controllerStates, enumeration, openOk, relock)} :
              /\ m_controllerStates' = cap.states
              /\ captureHung' = cap.hung
              /\ enumerated' = Enumerated(m_controllerStates, enumeration)
    /\ CaptureOnly

\* InputCapture::update, the polls and the reads answering anything
UpdatePolled ==
    /\ m_controllerStates # << >>
    /\ ~captureHung
    /\ \E polled \in SlotResults, result \in ReadResults :
          m_controllerStates' =
              pollHIDControllers(pollXInputControllers(m_controllerStates, polled), result)
    /\ enumerated' = [ids |-> {}, known |-> {}]
    /\ UNCHANGED captureHung
    /\ CaptureOnly

\* Polls in depth: two devices, every answer of the polls and the reads.
NextPoll ==
    \/ InitializePolled
    \/ RefreshPolled
    \/ UpdatePolled

SpecPoll == Init /\ [][NextPoll]_vars

\* Slots in depth: EnumSlots XInput slots and the interfaces of two XInput
\* pads, up to MaxSlotEnumerated of them in one enumeration.
EnumSlots == 2
MaxSlotEnumerated == 2

SlotInterfaces ==
    { Interface(InstanceId("VID_045E&PID_028E", "IG_00", "1"), FALSE),
      Interface(InstanceId("VID_045E&PID_028E", "IG_01", "2"), FALSE),
      Interface(InstanceId("VID_046D&PID_C21D", "IG_00", "1"), FALSE) }
SlotEnumerations ==
    UNION {{e \in [1..n -> SlotInterfaces] : \A i, j \in 1..n : e[i] = e[j] => i = j}
           : n \in 0..MaxSlotEnumerated}
EnumSlotResults == [0..(EnumSlots - 1) -> {"ERROR_SUCCESS", "ERROR_DEVICE_NOT_CONNECTED"}]

\* InputCapture::initialize with EnumSlots slots
InitializeSlots ==
    /\ m_controllerStates = << >>
    /\ ~captureHung
    /\ \E enumeration \in SlotEnumerations, openOk \in BOOLEAN,
          relock \in {"returns", "deadlock"}, result \in EnumSlotResults :
          \E cap \in {initializeHID(initializeXInputSlots(result, EnumSlots), enumeration,
                                    openOk, relock)} :
              /\ m_controllerStates' = cap.states
              /\ captureHung' = cap.hung
              /\ enumerated' = Enumerated(initializeXInputSlots(result, EnumSlots), enumeration)
    /\ CaptureOnly

\* InputCapture::refreshDevices with the interfaces of the two pads
RefreshSlots ==
    /\ m_controllerStates # << >>
    /\ ~captureHung
    /\ \E enumeration \in SlotEnumerations, openOk \in BOOLEAN,
          relock \in {"returns", "deadlock"} :
          \E cap \in {initializeHID(m_controllerStates, enumeration, openOk, relock)} :
              /\ m_controllerStates' = cap.states
              /\ captureHung' = cap.hung
              /\ enumerated' = Enumerated(m_controllerStates, enumeration)
    /\ CaptureOnly

\* InputCapture::update with EnumSlots slots
UpdateSlots ==
    /\ m_controllerStates # << >>
    /\ ~captureHung
    /\ \E polled \in EnumSlotResults, result \in PresenceReadResults :
          m_controllerStates' =
              pollHIDControllers(pollXInputSlots(m_controllerStates, polled, EnumSlots), result)
    /\ enumerated' = [ids |-> {}, known |-> {}]
    /\ UNCHANGED captureHung
    /\ CaptureOnly

NextSlots ==
    \/ InitializeSlots
    \/ RefreshSlots
    \/ UpdateSlots

SpecSlots == Init /\ [][NextSlots]_vars

-----------------------------------------------------------------------------
(* main (src/main.cpp) by steps, beside the dashboard thread and the        *)
(* console control handler.  The steps of the main thread are the calls     *)
(* that read or write what the other threads write: the test of g_running,  *)
(* the tick up to the refresh test (the capture's update; what the tick     *)
(* does with the devices is MainLoopDevices), isRefreshRequested,           *)
(* refreshDevices, clearRefreshRequest, the sleep, and the exit path.       *)

ProgramOnly ==
    UNCHANGED << deviceVars, buttonVars, socdVars, translateResult, stickVars, hidVars,
                 rumbleVars, lockVars, threadVars, mainVars, programVars >>

\* main up to the loop: InputCapture::initialize
MainInitialize ==
    /\ mainPc = "start"
    /\ \E enumeration \in PolledEnumerations, openOk \in BOOLEAN,
          relock \in {"returns", "deadlock"}, result \in InitialSlotResults :
          \E cap \in {initializeHID(initializeXInput(result), enumeration, openOk, relock)} :
              /\ m_controllerStates' = cap.states
              /\ captureHung' = cap.hung
              /\ enumerated' = Enumerated(initializeXInput(result), enumeration)
              /\ mainPc' = IF cap.hung THEN "start" ELSE "test"
    /\ UNCHANGED << g_running, m_refreshRequested, unserved >>
    /\ ProgramOnly

\* while (g_running)
MainTestsRunning ==
    /\ mainPc = "test"
    /\ mainPc' = IF g_running THEN "tick" ELSE "unhide"
    /\ UNCHANGED << g_running, m_refreshRequested, unserved, captureVars >>
    /\ ProgramOnly

\* the tick up to the refresh test
MainTick ==
    /\ mainPc = "tick"
    /\ \E polled \in PresenceResults, result \in PresenceReadResults :
          m_controllerStates' =
              pollHIDControllers(pollXInputControllers(m_controllerStates, polled), result)
    /\ enumerated' = [ids |-> {}, known |-> {}]
    /\ mainPc' = "check"
    /\ UNCHANGED << g_running, m_refreshRequested, unserved, captureHung >>
    /\ ProgramOnly

\* if (dashboard->isRefreshRequested()) ... else if (the interval is over)
MainChecksRequest ==
    /\ mainPc = "check"
    /\ \E intervalOver \in BOOLEAN :
          mainPc' = IF m_refreshRequested THEN "refresh"
                    ELSE IF intervalOver THEN "timer" ELSE "sleep"
    /\ UNCHANGED << g_running, m_refreshRequested, unserved, captureVars >>
    /\ ProgramOnly

\* inputCapture->refreshDevices(), asked for or by the timer: the call
\* returns unless the thread waits for its own lock
MainRefreshes ==
    /\ mainPc \in {"refresh", "timer"}
    /\ ~captureHung
    /\ \E enumeration \in PolledEnumerations, openOk \in BOOLEAN,
          relock \in {"returns", "deadlock"} :
          \E cap \in {initializeHID(m_controllerStates, enumeration, openOk, relock)} :
              /\ m_controllerStates' = cap.states
              /\ captureHung' = cap.hung
              /\ enumerated' = Enumerated(m_controllerStates, enumeration)
              /\ mainPc' = IF cap.hung THEN mainPc
                           ELSE IF mainPc = "refresh" THEN "clear" ELSE "sleep"
    /\ unserved' = FALSE
    /\ UNCHANGED << g_running, m_refreshRequested >>
    /\ ProgramOnly

\* dashboard->clearRefreshRequest()
MainClearsRequest ==
    /\ mainPc = "clear"
    /\ m_refreshRequested' = FALSE
    /\ mainPc' = "sleep"
    /\ UNCHANGED << g_running, unserved, captureVars >>
    /\ ProgramOnly

\* the sleep at the end of the tick
MainSleeps ==
    /\ mainPc = "sleep"
    /\ mainPc' = "test"
    /\ UNCHANGED << g_running, m_refreshRequested, unserved, captureVars >>
    /\ ProgramOnly

\* after the loop: the hidden devices are taken off the blacklist
MainUnhides ==
    /\ mainPc = "unhide"
    /\ mainPc' = "stop"
    /\ UNCHANGED << g_running, m_refreshRequested, unserved, captureVars >>
    /\ ProgramOnly

\* dashboard->stop() and the join of the dashboard thread
MainStopsDashboard ==
    /\ mainPc = "stop"
    /\ mainPc' = "return"
    /\ UNCHANGED << g_running, m_refreshRequested, unserved, captureVars >>
    /\ ProgramOnly

\* return 0: the emulator and the other modules are released
MainReturns ==
    /\ mainPc = "return"
    /\ mainPc' = "done"
    /\ UNCHANGED << g_running, m_refreshRequested, unserved, captureVars >>
    /\ ProgramOnly

\* the dashboard thread: the button "Refresh Devices" is pressed
PressRefreshDevices ==
    /\ mainPc \notin {"start", "return", "done"}
    /\ m_refreshRequested' = TRUE
    /\ unserved' = TRUE
    /\ UNCHANGED << g_running, mainPc, captureVars >>
    /\ ProgramOnly

\* consoleHandler on Ctrl-C, close, logoff or shutdown
consoleHandler ==
    /\ mainPc \notin {"start", "done"}
    /\ g_running' = FALSE
    /\ UNCHANGED << m_refreshRequested, mainPc, unserved, captureVars >>
    /\ ProgramOnly

MainThread ==
    \/ MainInitialize
    \/ MainTestsRunning
    \/ MainTick
    \/ MainChecksRequest
    \/ MainRefreshes
    \/ MainClearsRequest
    \/ MainSleeps
    \/ MainUnhides
    \/ MainStopsDashboard
    \/ MainReturns

NextProgram ==
    \/ MainInitialize
    \/ MainTestsRunning
    \/ MainTick
    \/ MainChecksRequest
    \/ MainRefreshes
    \/ MainClearsRequest
    \/ MainSleeps
    \/ MainUnhides
    \/ MainStopsDashboard
    \/ MainReturns
    \/ PressRefreshDevices
    \/ consoleHandler

SpecProgram == Init /\ [][NextProgram]_vars

\* the main thread is scheduled whenever it has a step to take
SpecProgramLive == Init /\ [][NextProgram]_vars /\ WF_vars(MainThread)

-----------------------------------------------------------------------------
(* Properties of the target lifecycle (Spec) *)

CreateCalls == {i \in 1..Len(calls) : calls[i].op = "createVirtualDevice"}
DestroyCalls == {i \in 1..Len(calls) : calls[i].op = "destroyVirtualDevice"}
Created == {i \in CreateCalls : calls[i].ret >= 0}

\* the translation direction that feeds a target of the given profile
DirectionEnabled(type) ==
    IF type = TARGET_DINPUT THEN m_xinputToDInputEnabled ELSE m_dinputToXInputEnabled

\* C1: after any sequence of processDevices and cleanup calls the emulator's
\* list never holds two records with the same (userId, type) pair.
C1_NoDuplicateTargets ==
    \A i, j \in 1..Len(m_virtualDevices) :
        (/\ m_virtualDevices[i].userId = m_virtualDevices[j].userId
         /\ m_virtualDevices[i].type = m_virtualDevices[j].type) => i = j

\* processDevices has run over connected devices whose targets are all live
\* already: both profiles of one userId and one profile of two userIds are in
\* the list, and the pass created nothing
C1_Witness ==
    /\ lastOp = "processDevices"
    /\ \E i \in 1..Len(calls[1].inputStates) : calls[1].inputStates[i].isConnected
    /\ calls[1].translationEnabled
    /\ CreateCalls = {}
    /\ \E i, j \in 1..Len(m_virtualDevices) :
          /\ m_virtualDevices[i].userId = m_virtualDevices[j].userId
          /\ m_virtualDevices[i].type # m_virtualDevices[j].type
    /\ \E i, j \in 1..Len(m_virtualDevices) :
          /\ m_virtualDevices[i].userId # m_virtualDevices[j].userId
          /\ m_virtualDevices[i].type = m_virtualDevices[j].type

C5_DisabledDirectionDestroyed ==
    lastOp = "processDevices" =>
        \A e \in 1..Len(calls[1].inputStates), d \in 1..Len(m_virtualDevices) :
            (/\ calls[1].inputStates[e].isConnected
             /\ calls[1].inputStates[e].userId = m_virtualDevices[d].userId)
            => DirectionEnabled(m_virtualDevices[d].type)

\* C6: processDevices calls createVirtualDevice of a profile only for a
\* snapshot entry that is connected, with translation enabled and with the
\* direction of that profile enabled (xi->di for the DS4-style target, di->xi
\* for the Xbox-style target).
C6_CreateOnlyWhenEnabled ==
    lastOp = "processDevices" =>
        \A i \in CreateCalls :
            /\ calls[1].inputStates[calls[i].entry].isConnected
            /\ calls[1].inputStates[calls[i].entry].userId = calls[i].userId
            /\ calls[1].translationEnabled
            /\ DirectionEnabled(calls[i].type)

\* processDevices has created a target of one profile for a connected entry
\* while the direction of the other profile was disabled
C6_Witness ==
    /\ lastOp = "processDevices"
    /\ \E i \in Created, t \in TargetTypes :
          /\ calls[i].type # t
          /\ ~DirectionEnabled(t)
          /\ \E e \in 1..Len(calls[1].inputStates) : ~calls[1].inputStates[e].isConnected

\* the snapshot of the lifecycle scenario: one connected HID pad, nothing on
\* the XInput slots
OneHidPad ==
    [i \in 1..NumSlots |-> XInputEntry(i - 1, FALSE)] \o << HidEntry(HidNames[1], TRUE) >>

\* C7, first tick of the lifecycle scenario: from an empty manager and
\* emulator with both directions enabled and masking off, processDevices
\* over one connected HID pad leaves exactly one target in the list, an
\* Xbox-style one with id 0.
C7_FirstTickCreatesOneXboxTarget ==
    [][(/\ m_initialized
        /\ m_virtualDevices = << >>
        /\ DOMAIN m_activeVirtualXInputDevices = {}
        /\ DOMAIN m_activeVirtualDInputDevices = {}
        /\ m_hiddenDeviceIds = {}
        /\ m_xinputToDInputEnabled /\ m_dinputToXInputEnabled
        /\ ~m_hidHideEnabled
        /\ lastOp' = "processDevices"
        /\ calls'[1].inputStates = OneHidPad
        /\ calls'[1].translationEnabled
        /\ ~calls'[1].hidHideEnabled
        /\ \A i \in 2..Len(calls') : calls'[i].op = "createVirtualDevice" => calls'[i].ret >= 0)
       => (/\ Len(m_virtualDevices') = 1
           /\ m_virtualDevices'[1].type = TARGET_XINPUT
           /\ m_virtualDevices'[1].userId = -1
           /\ m_virtualDevices'[1].id = 0)]_vars

-----------------------------------------------------------------------------
(* Properties of device masking (SpecMasking) *)

\* C3: after DeviceManager::cleanup has returned, the manager's hidden set
\* and the emulator's list are both empty, whatever the state before the
\* call (HidHide integration switched off after devices were hidden
\* included).
C3_CleanupLeavesNothing ==
    lastOp = "cleanup" => (m_hiddenDeviceIds = {} /\ m_virtualDevices = << >>)

\* C4: once cleanup has completed, no instance id that this process added to
\* the driver's blacklist is still on it (runs in which a call on the driver
\* itself failed are left aside).
C4_BlacklistRestored ==
    (lastOp = "cleanup" /\ ~driverFaulted) =>
        addedToBlacklist \cap Range(driverBlacklist) = {}

\* the masking attempts of the last processDevices: the calls of
\* addPhysicalDeviceToHidHideBlacklist it made
MaskingAttempts ==
    {i \in 1..Len(calls) : calls[i].op = "addPhysicalDeviceToHidHideBlacklist"}

\* C21: processDevices makes a masking attempt (and so puts the instance id
\* into the hidden set or the failed-to-hide set) only for a connected entry
\* of the snapshot, with masking requested, the filter client connected, a
\* userId < 0 and the direction DInput -> XInput enabled; the id of an
\* accepted attempt is in the hidden set, that of a rejected one in the
\* failed-to-hide set.
C21_MaskingOnlyWhenEligible ==
    lastOp = "processDevices" =>
        \A i \in MaskingAttempts :
            LET state == calls[1].inputStates[calls[i].entry]
            IN /\ state.isConnected
               /\ calls[1].hidHideEnabled
               /\ m_connected
               /\ state.userId < 0
               /\ m_dinputToXInputEnabled
               /\ IF calls[i].ret
                  THEN calls[i].deviceInstanceId \in m_hiddenDeviceIds
                  ELSE calls[i].deviceInstanceId \in m_failedToHideDeviceIds

-----------------------------------------------------------------------------
(* Properties of the main loop (SpecLoop) *)

\* the target with this id refuses reports (its connected flag is cleared)
\* while its physical device is connected and translation is enabled
Refusing(id) ==
    /\ translationEnabled
    /\ \E d \in 1..Len(m_virtualDevices), e \in 1..Len(inputStates) :
          /\ m_virtualDevices[d].id = id
          /\ ~m_virtualDevices[d].connected
          /\ inputStates[e].userId = m_virtualDevices[d].userId
          /\ inputStates[e].isConnected

\* C8: a target whose connected flag a failed submit has cleared does not
\* stay in the list refusing reports for ever while its physical device stays
\* connected and translation stays enabled: it is submitted to again (which
\* needs the flag set) or destroyed.
C8_RefusingTargetRecovers ==
    \A id \in 0..(2 * NumSlots + 1) : Refusing(id) ~> ~Refusing(id)

-----------------------------------------------------------------------------
(* Properties of the button word (SpecDebounce) *)

\* C9: with debouncing enabled and a source userId in [0, 16), a call of
\* translate made before the debounce interval has elapsed since the last
\* accepted change of the slot puts out the previously accepted button word;
\* otherwise it puts out the new word and sets the timestamp of the slot.
C9_DebouncedWordIsPrevious ==
    (/\ translated.debouncing
     /\ translated.userId >= 0 /\ translated.userId < MAX_CONTROLLERS
     /\ translated.hasPrevious) =>
        IF translated.inInterval
        THEN translated.wButtons = translated.previousButtons
        ELSE /\ translated.wButtons = translated.newButtons
             /\ m_lastButtonChangeTime[translated.userId] = translated.currentTime

-----------------------------------------------------------------------------
(* Properties of SOCD cleaning (SpecSOCD) *)

OpposingPairs == {{"DPAD_LEFT", "DPAD_RIGHT"}, {"DPAD_UP", "DPAD_DOWN"}}

\* C14: under the Neutral method (2) applySOCDControl clears both bits of
\* every opposing pair that is fully set, on each axis by itself, and leaves
\* every other bit as it was (Up+Right stays); applied to its own output it
\* changes nothing.
C14_NeutralClearsOpposingPairs ==
    (socd.applied /\ socd.method = 2) =>
        /\ socd.after = socd.before \ UNION {pair \in OpposingPairs : pair \subseteq socd.before}
        /\ gamepad.wButtons = socd.after
        /\ socd.again => socd.after = socd.before

C14_Witness ==
    /\ socd.applied /\ socd.method = 2
    /\ socd.before = {"DPAD_LEFT", "DPAD_RIGHT", "DPAD_UP", "A"}
    /\ socd.after = {"DPAD_UP", "A"}

-----------------------------------------------------------------------------
(* Properties of translate (SpecTranslate) *)

isXInput(inputState) == inputState.dwPacketNumber > 0 \/ inputState.userId >= 0
isRecognized(inputState) == isXInput(inputState) \/ inputState.devicePath # ""

-----------------------------------------------------------------------------
(* Properties of the conversion of a HID source (SpecHID) *)

\* the value of the one axis the source reports, and what the conversion
\* and translate made of it
AxisOf(state, usage) ==
    CASE usage = USAGE_X -> state.sThumbLX
      [] usage = USAGE_Y -> state.sThumbLY
      [] usage = USAGE_Z -> state.sThumbRX
      [] usage = USAGE_RZ -> state.sThumbRY

\* C17: for the source named "Wireless Controller" every raw value v in
\* 0..255 of a Y axis (usages 0x31, 0x35) is converted to a positive value
\* when v < 128 and to a negative value when v > 128; none wraps around.
C17_WirelessControllerYSign ==
    (converted.done /\ hidState.productName = "Wireless Controller") =>
        \A usage \in DOMAIN hidState.m_hidValues \cap {USAGE_Y, USAGE_RZ} :
            LET v == hidState.m_hidValues[usage]
                canonical == AxisOf(converted.gamepad, usage)
            IN /\ v < 128 => canonical > 0
               /\ v > 128 => canonical < 0
               /\ canonical = (128 - v) * 256

\* C18: for a source without profile whose axis declares the logical range
\* lo < hi (0..255, 0..1023, 0..65535, -128..127), a Y or Rz axis at lo is
\* converted to a positive value and at hi to a negative one, an X or Z axis
\* at lo to a value below -30000 and at hi to one above 30000, and at the
\* middle of the range to a value within 500 of zero; negating the Y value
\* never leaves the 16-bit range.
C18_GenericAxisEnds ==
    (converted.done /\ hidState.productName = "Test Controller"
                    /\ hidState.valueCaps # << >>) =>
        \A usage \in DOMAIN hidState.m_hidValues \cap StickUsages :
            LET v == hidState.m_hidValues[usage]
                lo == hidState.valueCaps[1].LogicalMin
                hi == hidState.valueCaps[1].LogicalMax
                middle == TruncDiv(lo + hi, 2)
                canonical == AxisOf(converted.gamepad, usage)
            IN IF usage \in {USAGE_Y, USAGE_RZ}
               THEN /\ v = lo => canonical > 0
                    /\ v = hi => canonical < 0
               ELSE /\ v = lo => canonical < -30000
                    /\ v = hi => canonical > 30000
                    /\ v \in {middle, middle + 1} => (canonical > -500 /\ canonical < 500)

\* C19: with the deadzone enabled at 0.15, a source without profile and
\* without value caps whose X and Y values rest near 128 (151 and 143 among
\* them) is translated to a left stick within 100 of the centre on both axes.
C19_RestingStickIsCentred ==
    (converted.done /\ m_stickDeadzoneEnabled /\ m_leftStickDeadzone = 150
                    /\ hidState.productName = "Test Controller"
                    /\ hidState.valueCaps = << >>
                    /\ DOMAIN hidState.m_hidValues = {USAGE_X, USAGE_Y}) =>
        /\ gamepad.sThumbLX >= -100 /\ gamepad.sThumbLX <= 100
        /\ gamepad.sThumbLY >= -100 /\ gamepad.sThumbLY <= 100

-----------------------------------------------------------------------------
(* Properties of the rumble passthrough (SpecRumble) *)

\* C20: the left and right powers the rumble callback gets on a notification
\* of the bus are the motor bytes over 255 times the rumble intensity of the
\* emulator; with the intensity at 0 both are 0.
C20_NotificationScaledByIntensity ==
    \A i \in 1..Len(rumble) :
        rumble[i].by = "x360Notification" =>
            /\ rumble[i].left = rumble[i].largeMotor * m_rumbleIntensity
            /\ rumble[i].right = rumble[i].smallMotor * m_rumbleIntensity

\* C29: once a masking attempt for an instance id has been rejected,
\* processDevices never calls addPhysicalDeviceToHidHideBlacklist for that id
\* again, however long the device stays connected and eligible, and an id
\* that is in the hidden set is not submitted again: a rejected id enters
\* the failed set, the failed set never loses an id, and a pass submits no
\* id of the failed or of the hidden set.
C29_RejectedIdNotRetried ==
    [][/\ m_failedToHideDeviceIds \subseteq m_failedToHideDeviceIds'
       /\ lastOp' = "processDevices" =>
              \A i \in {k \in 1..Len(calls') :
                            calls'[k].op = "addPhysicalDeviceToHidHideBlacklist"} :
                  /\ calls'[i].deviceInstanceId \notin m_failedToHideDeviceIds
                  /\ calls'[i].deviceInstanceId \notin m_hiddenDeviceIds
                  /\ ~calls'[i].ret => calls'[i].deviceInstanceId \in m_failedToHideDeviceIds']_vars

\* processDevices has passed over a connected and eligible device whose id
\* is in the failed set, with the driver connected, and has not submitted it
C29_Witness ==
    /\ lastOp = "processDevices"
    /\ calls[1].hidHideEnabled
    /\ m_hidHideEnabled
    /\ m_connected
    /\ m_dinputToXInputEnabled
    /\ MaskingAttempts = {}
    /\ \E e \in 1..Len(calls[1].inputStates) :
          /\ calls[1].inputStates[e].isConnected
          /\ calls[1].inputStates[e].userId < 0
          /\ calls[1].inputStates[e].deviceInstanceId \in m_failedToHideDeviceIds

-----------------------------------------------------------------------------
(* Properties of one pass of processDevices (SpecPass) *)

\* C30: within one processDevices pass, for a device that is eligible for
\* masking, the masking attempt and the pause after a first successful
\* masking come before every createVirtualDevice call for the userId of that
\* device: no target for that user is created in the pass before the attempt.
C30_MaskBeforeCreate ==
    lastOp = "processDevices" =>
        \A i \in {k \in 1..Len(calls) :
                      calls[k].op \in {"addPhysicalDeviceToHidHideBlacklist", "sleep_for"}} :
            \A j \in CreateCalls :
                calls[j].userId = calls[1].inputStates[calls[i].entry].userId => i < j

-----------------------------------------------------------------------------
(* Properties of the proxy loop of main (SpecMain) *)

\* C28: in the proxy loop a connected device is put on the blacklist of the
\* filter driver only if it is on the HID stack (userId < 0) and the
\* direction DInput to XInput is enabled; a device of the XInput stack is
\* never masked and its instance id never enters the loop's hidden or
\* failed-to-hide set.
C28_LoopMasksHidDevicesOnly ==
    lastOp = "main" =>
        /\ \A i \in MaskingAttempts :
              /\ calls[1].inputStates[calls[i].entry].isConnected
              /\ calls[1].inputStates[calls[i].entry].userId < 0
              /\ m_dinputToXInputEnabled
        /\ \A e \in 1..Len(calls[1].inputStates) :
              calls[1].inputStates[e].userId >= 0 =>
                  calls[1].inputStates[e].deviceInstanceId
                      \notin (hiddenDeviceIds \cup failedToHideDeviceIds)

-----------------------------------------------------------------------------
(* Properties of the callbacks (SpecCallbacks) *)

\* C22: every callback the emulator fires (the device callback from
\* createVirtualDevice and destroyVirtualDevice, the rumble callback from
\* setRumbleEnabled and setRumbleIntensity) runs while m_devicesMutex is not
\* held, so a callback that calls a locking operation of the emulator
\* returns: the calling thread is never blocked and the program never ended.
C22_CallbacksRunUnlocked ==
    /\ callerPc = "in_callback" => m_devicesMutex = "free"
    /\ callerPc \notin RelockOutcomes

-----------------------------------------------------------------------------
(* Properties of the two threads of the emulator (SpecThreads) *)

\* C23: the reports of one physical slot reach its virtual target in
\* capture order: once a report has been submitted to a target, no report
\* captured earlier is submitted to it afterwards, however the main loop's
\* sendInput and the injection thread's pass over the queue interleave.
C23_SubmittedInCaptureOrder ==
    \A i, j \in 1..Len(submitted) :
        (i < j /\ submitted[i].targetType = submitted[j].targetType)
            => submitted[i].timestamp < submitted[j].timestamp

\* C27: shutdown stops and joins the injection thread before it destroys the
\* targets and frees the client of the bus: the thread has ended when the
\* targets are destroyed, in every interleaving it updates a target only
\* while no target and no client has been freed by shutdown, and a shutdown
\* call on an emulator that is not initialized changes nothing.
C27_ShutdownJoinsBeforeFreeing ==
    [][/\ (shutdownPc = "join" /\ shutdownPc' = "free") => (workerPc = -2 /\ ~m_running)
       /\ (workerPc >= 1 /\ submitted' # submitted)
             => (shutdownPc \in {"idle", "join"} /\ ~clientFreed /\ m_initialized)
       /\ (lastOp' = "shutdown" /\ shutdownPc = "idle" /\ ~m_initialized)
             => UNCHANGED << m_initialized, m_virtualDevices, m_injectionQueue, threadVars >>]_vars

\* shutdown has freed the client after the injection thread had updated a
\* target from the queue, and shutdown has been called once more
C27_Witness ==
    /\ lastOp = "shutdown"
    /\ shutdownPc = "idle"
    /\ ~m_initialized
    /\ clientFreed
    /\ \E i \in 1..Len(submitted) : submitted[i].by = "inject"

-----------------------------------------------------------------------------
(* Properties of the capture layer (SpecCapture) *)

\* C10: after any sequence of refreshDevices and update calls the snapshot
\* vector holds at most one entry for any non-empty instance id.
C10_OneEntryPerInstanceId ==
    \A i, j \in 1..Len(m_controllerStates) :
        (/\ m_controllerStates[i].deviceInstanceId # EmptyId
         /\ m_controllerStates[i].deviceInstanceId = m_controllerStates[j].deviceInstanceId)
        => i = j

\* an enumeration has reported a device again that the list held already,
\* as a HID entry beside a slot that was free at the time
C10_Witness ==
    /\ enumerated.known # {}
    /\ \E i, j \in 1..Len(m_controllerStates) :
          /\ m_controllerStates[i].userId >= 0
          /\ m_controllerStates[i].deviceInstanceId # EmptyId
          /\ m_controllerStates[j].userId < 0
          /\ m_controllerStates[j].deviceInstanceId \in enumerated.known
          /\ m_controllerStates[j].deviceInstanceId.ig # ""

XInputSlots == {i \in 1..Len(m_controllerStates) : m_controllerStates[i].userId >= 0}
HidEntries ==
    {i \in 1..Len(m_controllerStates) :
        m_controllerStates[i].hidHandle /\ m_controllerStates[i].userId < 0}

\* C24: when the XInput poll of a matched slot fails with an error other
\* than device-not-connected, update leaves the instance id and the connected
\* flag of the slot as they were; only device-not-connected clears the
\* instance id and marks the slot disconnected.
C24_TransientPollKeepsSlot ==
    [][UpdatePolled =>
          \A i \in XInputSlots :
              (/\ m_controllerStates[i].deviceInstanceId # EmptyId
               /\ m_controllerStates'[i].lastError
                     \notin {"ERROR_SUCCESS", "ERROR_DEVICE_NOT_CONNECTED"})
              => /\ m_controllerStates'[i].deviceInstanceId =
                        m_controllerStates[i].deviceInstanceId
                 /\ m_controllerStates'[i].isConnected = m_controllerStates[i].isConnected]_vars

\* C25: after every update and every refreshDevices, each XInput slot whose
\* instance id is empty is disconnected, whatever XInputGetState answered for
\* it: a connected XInput slot has a non-empty instance id.
C25_UnmatchedSlotDisconnected ==
    \A i \in XInputSlots :
        m_controllerStates[i].isConnected => m_controllerStates[i].deviceInstanceId # EmptyId

\* update has polled (a HID read is under way) and an XInput slot without
\* an instance id is disconnected
C25_Witness ==
    /\ \E j \in HidEntries : m_controllerStates[j].isReadPending
    /\ \E i \in XInputSlots :
          /\ m_controllerStates[i].deviceInstanceId = EmptyId
          /\ ~m_controllerStates[i].isConnected

\* what the overlapped read of a HID entry may do with the flag and with
\* isConnected when the read call or the completion check answers result
ReadStep(before, after, result) ==
    IF ~before.isReadPending
    THEN /\ after.isReadPending = (result = "pending")
         /\ IF result = "success" THEN after.isConnected
            ELSE IF result = "not_connected" THEN ~after.isConnected
            ELSE after.isConnected = before.isConnected
    ELSE IF result = "pending"
         THEN after.isReadPending /\ after.isConnected = before.isConnected
    ELSE IF result = "success" THEN ~after.isReadPending /\ after.isConnected
    ELSE IF result = "not_connected" THEN ~after.isReadPending /\ ~after.isConnected
    ELSE ~after.isReadPending /\ after.isConnected = before.isConnected

\* C26: the overlapped read of a HID entry keeps at most one read
\* outstanding: a read is issued only while isReadPending is false and a
\* pending answer sets the flag; while it is set, io-incomplete leaves the
\* flag and isConnected alone, completion clears the flag and marks the
\* entry connected, device-not-connected clears the flag and marks it
\* disconnected, and every other error clears the flag and leaves
\* isConnected as it was.
C26_OverlappedReadStateMachine ==
    [][UpdatePolled =>
          \A i \in HidEntries :
              \E result \in ReadResults :
                  /\ m_controllerStates'[i] =
                         pollHIDControllers(m_controllerStates, result)[i]
                  /\ ReadStep(m_controllerStates[i], m_controllerStates'[i], result)]_vars

-----------------------------------------------------------------------------
(* Properties of the emulator driven directly (SpecEmulator) *)

\* C11: while the emulator is not initialized (initialize failed or was never
\* called), createVirtualDevice returns a negative id, destroyVirtualDevice
\* and sendInput return false, and none of them changes anything: the list of
\* virtual devices stays empty and the injection queue stays as it was.
C11_UninitializedRefuses ==
    (lastOp = "emulator" /\ ~calls[1].initialized /\ calls[1].op # "shutdown") =>
        /\ IF calls[1].op = "createVirtualDevice" THEN calls[1].ret < 0
                                                  ELSE calls[1].ret = FALSE
        /\ ~m_initialized
        /\ calls[1].devices = << >>
        /\ m_virtualDevices = << >>
        /\ m_injectionQueue = calls[1].queue

\* sendInput was called with a report while the emulator was not initialized
C11_Witness ==
    /\ lastOp = "emulator"
    /\ ~calls[1].initialized
    /\ calls[1].op = "sendInput"
    /\ calls[1].translatedStates # << >>
    /\ calls[1].ret = FALSE

-----------------------------------------------------------------------------
(* Properties of the HidHide client (SpecHidHide) *)

\* the IOCTLs the last operation sent
Ioctls == {i \in 2..Len(calls) : calls[i].op = "DeviceIoControl"}

\* C12: after addDeviceToBlacklist(id) on a connected client whose IOCTLs all
\* succeed, the driver's blacklist holds id exactly once and still holds
\* every entry it held before the call, whatever the list was before (the
\* empty list included).
C12_AddKeepsListAndAddsOnce ==
    (/\ lastOp = "hidhide"
     /\ calls[1].op = "addDeviceToBlacklist"
     /\ calls[1].connected
     /\ \A i \in Ioctls : calls[i].ok) =>
        /\ Cardinality({k \in 1..Len(driverBlacklist) : driverBlacklist[k] = calls[1].path}) = 1
        /\ Range(calls[1].blacklist) \subseteq Range(driverBlacklist)

\* C13: while the client is not connected, each of add/remove/clear/get on
\* the blacklist and on the whitelist, setActive and setInverseMode answers
\* false or an empty list, sends no IOCTL and leaves the driver's lists (and
\* its two switches) as they were.
C13_DisconnectedDoesNothing ==
    (/\ lastOp = "hidhide"
     /\ ~calls[1].connected
     /\ calls[1].op \notin {"connect", "disconnect"}) =>
        /\ IF calls[1].op \in {"getBlacklist", "getWhitelist"}
           THEN calls[1].ret = << >> ELSE calls[1].ret = FALSE
        /\ Ioctls = {}
        /\ driverBlacklist = calls[1].blacklist
        /\ driverWhitelist = calls[1].whitelist
        /\ driverActive = calls[1].active
        /\ driverInverse = calls[1].inverse
        /\ ~m_connected

\* an operation that would change a list that is not empty was called on a
\* client that has been connected and is disconnected again
C13_Witness ==
    /\ lastOp = "hidhide"
    /\ ~calls[1].connected
    /\ calls[1].op \in {"clearBlacklist", "removeDeviceFromBlacklist"}
    /\ addedToBlacklist # {}
    /\ \E k \in 1..Len(driverBlacklist) : driverBlacklist[k] \in addedToBlacklist

-----------------------------------------------------------------------------
(* Properties of the order in which the threads lock (SpecThreads) *)

\* C31: no thread locks m_devicesMutex while it holds m_injectionQueueMutex:
\* the injection thread holds only the queue mutex while it drains the queue,
\* and the mutexes are only ever nested m_devicesMutex first.
C31_NoQueueThenDevices ==
    << "m_injectionQueueMutex", "m_devicesMutex" >> \notin nested

-----------------------------------------------------------------------------
(* Properties of the XInput slots during enumeration (SpecSlots) *)

\* the slots that carry an instance id
AssignedSlots == {i \in XInputSlots : m_controllerStates[i].deviceInstanceId # EmptyId}

\* no two slots carry interfaces of one physical pad
OnePadOneSlot ==
    \A i, j \in AssignedSlots :
        BaseDeviceId(m_controllerStates[i].deviceInstanceId)
            = BaseDeviceId(m_controllerStates[j].deviceInstanceId) => i = j

\* the slots an enumeration assigns are the lowest of those that were empty
LowestEmptySlots ==
    (InitializeSlots \/ RefreshSlots) =>
        \A i, j \in 1..Len(m_controllerStates') :
            (/\ m_controllerStates'[i].userId >= 0
             /\ m_controllerStates'[j].userId >= 0
             /\ m_controllerStates'[j].userId < m_controllerStates'[i].userId
             /\ m_controllerStates'[i].deviceInstanceId # EmptyId
             /\ (i \in AssignedSlots => m_controllerStates[i].deviceInstanceId
                                            # m_controllerStates'[i].deviceInstanceId))
                => m_controllerStates'[j].deviceInstanceId # EmptyId

\* C32: during enumeration all HID interfaces of one physical XInput pad (the
\* same text before the backslash, &IG_ suffix stripped) occupy at most one
\* XInput slot, and a newly matched pad is given the lowest-numbered slot
\* whose instance id is empty.
C32_OnePadOneLowestSlot == []OnePadOneSlot /\ [][LowestEmptySlots]_vars

\* both interfaces of one pad were enumerated together while slot 0 was taken
\* by the other pad: the pad holds slot 1 alone
C32_Witness ==
    /\ Len(m_controllerStates) = EnumSlots
    /\ Cardinality({id \in enumerated.ids : BaseDeviceId(id) = "VID_045E&PID_028E"}) = 2
    /\ BaseDeviceId(m_controllerStates[1].deviceInstanceId) = "VID_046D&PID_C21D"
    /\ BaseDeviceId(m_controllerStates[2].deviceInstanceId) = "VID_045E&PID_028E"
    /\ enumerated.known = {}

\* C35: refreshDevices always returns: whatever the enumeration reports, a
\* new generic HID gamepad included, the enumerating thread never locks
\* m_statesMutex while it holds it, so it never waits for its own lock.
C35_RefreshDevicesReturns == [][RefreshDevices => ~captureHung']_vars

-----------------------------------------------------------------------------
(* Properties of the main thread beside the dashboard (SpecProgram) *)

\* C33: every press of the refresh button is followed by a refreshDevices
\* call that starts after the press: under every interleaving of the
\* dashboard thread and the main loop, the request is not cleared while a
\* press is still waiting for such a call.
C33_NoRequestLost == unserved => m_refreshRequested

\* C34: once consoleHandler has cleared g_running, the main loop starts no
\* tick after the one in progress and the exit path runs (the hidden devices
\* are unmasked, the dashboard is stopped, the emulator is released): the
\* loop always terminates after a stop request.
C34_StopLeadsToExit == (~g_running) ~> (mainPc = "done")

-----------------------------------------------------------------------------
(* Properties of one pass over several HID devices (SpecPass) *)

\* the call of processDevices had a connected HID device in its snapshot and
\* translation enabled
ConnectedHidPass(call) ==
    /\ call.translationEnabled
    /\ \E i \in 1..Len(call.inputStates) :
           call.inputStates[i].userId < 0 /\ call.inputStates[i].isConnected

\* C36: while a HID device stays connected with translation and its
\* direction enabled, processDevices does not destroy its virtual target
\* because another HID device of the same snapshot is disconnected; and a
\* second pass over an identical snapshot creates and destroys nothing.
C36_SiblingDisconnectKeepsTarget ==
    [][lastOp' = "processDevices" =>
          /\ (/\ ConnectedHidPass(calls'[1])
              /\ m_dinputToXInputEnabled
              /\ MapHas(m_activeVirtualXInputDevices, -1)) =>
                  \A k \in 1..Len(calls') :
                      calls'[k].op = "destroyVirtualDevice" =>
                          calls'[k].id # m_activeVirtualXInputDevices[-1]
          /\ (lastOp = "processDevices" /\ calls[1] = calls'[1]) =>
                  \A k \in 1..Len(calls') :
                      /\ calls'[k].op # "destroyVirtualDevice"
                      /\ calls'[k].op = "createVirtualDevice" => calls'[k].ret < 0]_vars

-----------------------------------------------------------------------------
(* Properties of the reports the targets receive (SpecLoop) *)

\* C37: every virtual target that processDevices created for a connected
\* physical device is updated with a report on each tick in which translation
\* is enabled and the target's connected flag is set: whatever directions are
\* enabled, the target type translate chooses for a source is that of a
\* target the manager created for it, and no live target goes without
\* reports.
C37_EveryLiveTargetFed ==
    (lastOp = "sendInput" /\ translationEnabled /\ m_initialized) =>
        \A d \in 1..Len(m_virtualDevices) : \A i \in 1..Len(inputStates) :
            (/\ inputStates[i].isConnected
             /\ inputStates[i].userId = m_virtualDevices[d].userId
             /\ m_virtualDevices[d].connected) =>
                \E k \in 1..Len(calls) :
                    /\ calls[k].op = "vigem_target_update"
                    /\ calls[k].id = m_virtualDevices[d].id

-----------------------------------------------------------------------------
(* Properties of the retry queue (SpecThreads, SpecThreadsLive) *)

\* no queued report has been sent by the injection thread more than once
AttemptedAtMostOnce == \A t \in DOMAIN attempts : attempts[t] <= 1

\* a report leaves the queue only after the injection thread has sent it once
RemovedAfterOneAttempt ==
    \A i \in 1..Len(m_injectionQueue) :
        m_injectionQueue[i] \notin Range(m_injectionQueue') =>
            /\ m_injectionQueue[i].timestamp \in DOMAIN attempts
            /\ attempts[m_injectionQueue[i].timestamp] = 1

-----------------------------------------------------------------------------
(* Properties of the manager's maps against the emulator's list (Spec) *)

\* the entries of a userId -> virtualId map that name the record
MappedBy(active, type, record) ==
    {u \in DOMAIN active : active[u] = record.id /\ u = record.userId /\ type = record.type}

\* every virtualId of the map is the id of a record of the list with the
\* map's userId and profile
MapIsLive(active, type) ==
    \A u \in DOMAIN active :
        \E d \in 1..Len(m_virtualDevices) :
            /\ m_virtualDevices[d].id = active[u]
            /\ m_virtualDevices[d].userId = u
            /\ m_virtualDevices[d].type = type

\* C39: at the end of every processDevices and cleanup call the manager's two
\* userId -> virtualId maps agree with the emulator: every mapped virtualId is
\* the id of a live record of the emulator's list with the same userId and
\* the map's profile, and every record of the list is mapped by exactly one
\* entry.
C39_MapsAgreeWithEmulator ==
    lastOp \in {"processDevices", "cleanup"} =>
        /\ MapIsLive(m_activeVirtualXInputDevices, TARGET_XINPUT)
        /\ MapIsLive(m_activeVirtualDInputDevices, TARGET_DINPUT)
        /\ \A d \in 1..Len(m_virtualDevices) :
               Cardinality(MappedBy(m_activeVirtualXInputDevices, TARGET_XINPUT,
                                    m_virtualDevices[d]))
                 + Cardinality(MappedBy(m_activeVirtualDInputDevices, TARGET_DINPUT,
                                        m_virtualDevices[d])) = 1

\* processDevices has left targets of both profiles, for the XInput
\* controller and for the HID device
C39_Witness ==
    /\ lastOp = "processDevices"
    /\ DOMAIN m_activeVirtualXInputDevices = {-1, 0}
    /\ DOMAIN m_activeVirtualDInputDevices = {-1, 0}
    /\ Len(m_virtualDevices) = 4

-----------------------------------------------------------------------------
(* Properties of the two sets of the manager (SpecHide) *)

\* C40: in every reachable state of the device manager the sets
\* m_hiddenDeviceIds and m_failedToHideDeviceIds are disjoint, and neither
\* holds the empty instance id.
C40_HiddenAndFailedDisjoint ==
    /\ m_hiddenDeviceIds \cap m_failedToHideDeviceIds = {}
    /\ "" \notin m_hiddenDeviceIds \cup m_failedToHideDeviceIds

\* a pass with masking on met a device without an instance id while one
\* device is hidden and another has been rejected
C40_Witness ==
    /\ lastOp = "processDevices"
    /\ calls[1].hidHideEnabled
    /\ m_hidHideEnabled
    /\ m_dinputToXInputEnabled
    /\ \E e \in 1..Len(calls[1].inputStates) :
          /\ calls[1].inputStates[e].isConnected
          /\ calls[1].inputStates[e].deviceInstanceId = ""
    /\ m_hiddenDeviceIds # {}
    /\ m_failedToHideDeviceIds # {}

====
